---- MODULE Spec2Model ----
(***************************************************************************)
(* Seat map / reservation consistency of the Airplane Management System.   *)
(*                                                                         *)
(* Strings are TLA+ strings (ids, seat codes, payment fields).  Money and  *)
(* loyalty points are C++ floats in the source; here they are fixed-point  *)
(* decimals counted in units of 1/Scale, so 220.00 is 220 * Scale.         *)
(***************************************************************************)
EXTENDS Integers, Sequences, FiniteSets, TLC

VARIABLES users, aircrafts, flights, crewMembers, reservations, payments, last,
          priceIn, priceOut, usernameToIdMap

vars == <<users, aircrafts, flights, crewMembers, reservations, payments, last, priceIn, priceOut, usernameToIdMap>>

repos == <<users, usernameToIdMap, aircrafts, flights, crewMembers, reservations, payments>>

-----------------------------------------------------------------------------
(* Bounds of the model *)

\* number of bookings a behaviour can make: the size of the pools the
\* payment ids and the reservation ids are drawn from
MaxBookings == 2

\* highest seat row the pricing inputs use
MaxRow == 20

\* highest number of rows of the aircraft the seat decoding is checked on
MaxSeatRows == 2

-----------------------------------------------------------------------------
(* Program constants *)

MAX_SEATS_PER_ROW == 26

INT_MAX == 2147483647

\* fixed-point unit: one point / one currency unit is Scale units
Scale == 100

-----------------------------------------------------------------------------
(* Characters and strings *)

Digits == "0123456789"

UpperCase == "ABCDEFGHIJKLMNOPQRSTUVWXYZ"

LowerCase == "abcdefghijklmnopqrstuvwxyz"

\* ASCII 45 ('-') .. 90 ('Z'), in code order
AsciiTable == "-./0123456789:;<=>?@ABCDEFGHIJKLMNOPQRSTUVWXYZ"

\* s[i] of std::string, i counted from 0
CharAt(s, i) == SubSeq(s, i + 1, i + 1)

\* position (from 1) of character c in table t, 0 when absent
IndexIn(t, c) ==
    LET hits == {i \in 1..Len(t) : SubSeq(t, i, i) = c}
    IN  IF hits = {} THEN 0 ELSE CHOOSE i \in hits : TRUE

\* the characters of a table, as a set of one-character strings
CharsOf(t) == {SubSeq(t, i, i) : i \in 1..Len(t)}

\* ASCII codes of the characters the model's strings are made of
AsciiCode ==
    [c \in CharsOf(AsciiTable) \cup CharsOf(LowerCase) |->
        IF IndexIn(AsciiTable, c) > 0 THEN 44 + IndexIn(AsciiTable, c)
        ELSE 96 + IndexIn(LowerCase, c)]

\* the char value C++ compares: ASCII code of a one-character string
CharCode(c) == AsciiCode[c]

DigitChars == CharsOf(Digits)

isdigit(c) == c \in DigitChars

\* c - '0' for a digit character c
DigitValue == [c \in DigitChars |-> IndexIn(Digits, c) - 1]

npos == -1

Min(a, b) == IF a < b THEN a ELSE b

\* std::string::find_first_not_of("0123456789")
find_first_not_of_digits(s) ==
    LET bad == {i \in 0..(Len(s) - 1) : ~isdigit(CharAt(s, i))}
    IN  IF bad = {} THEN npos
        ELSE CHOOSE i \in bad : \A j \in bad : i <= j

\* value of the first n characters of s, all of them digits
RECURSIVE DecimalValue(_, _)
DecimalValue(s, n) ==
    IF n = 0 THEN 0
    ELSE 10 * DecimalValue(s, n - 1) + DigitValue[CharAt(s, n - 1)]

\* std::stoi: optional sign, then the longest run of digits; throws when
\* there is no digit (invalid_argument) or the value leaves int (out_of_range)
stoi(s) ==
    LET signed == Len(s) > 0 /\ CharAt(s, 0) \in {"-", "+"}
        body   == IF signed THEN SubSeq(s, 2, Len(s)) ELSE s
        stop   == find_first_not_of_digits(body)
        n      == IF stop = npos THEN Len(body) ELSE stop
        mag    == DecimalValue(body, n)
    IN  IF n = 0 THEN [throws |-> TRUE, value |-> 0]
        ELSE IF mag > INT_MAX THEN [throws |-> TRUE, value |-> 0]
        ELSE [throws |-> FALSE,
              value  |-> IF signed /\ CharAt(s, 0) = "-" THEN 0 - mag ELSE mag]

\* std::to_string of a non-negative int
RECURSIVE to_string(_)
to_string(n) ==
    IF n < 10 THEN SubSeq(Digits, n + 1, n + 1)
    ELSE to_string(n \div 10) \o SubSeq(Digits, (n % 10) + 1, (n % 10) + 1)

\* the seat code "{row}{chr('A'+col)}"
SeatCode(row, col) == to_string(row) \o SubSeq(UpperCase, col + 1, col + 1)

-----------------------------------------------------------------------------
(* FlightModel: seat code resolution and seat state *)

InvalidIndices == <<-1, -1>>

\* a mutated decoding: the last column of a row is rejected
getSeatIndices_lastcol(f, seatNumber) ==
    IF f.aircraftId \notin DOMAIN aircrafts \/ seatNumber = "" THEN InvalidIndices
    ELSE
      LET aircraft == aircrafts[f.aircraftId]
          colIndex == find_first_not_of_digits(seatNumber)
      IN  IF colIndex = npos \/ colIndex = 0 \/ (Len(seatNumber) - colIndex) # 1
          THEN InvalidIndices
          ELSE
            LET colChar == CharAt(seatNumber, colIndex)
                rowRes  == stoi(SubSeq(seatNumber, 1, colIndex))
            IN  IF CharCode(colChar) < CharCode("A")
                   \/ CharCode(colChar) >= aircraft.numOfRowSeats + CharCode("A") - 1
                THEN InvalidIndices
                ELSE IF rowRes.throws THEN InvalidIndices
                ELSE IF rowRes.value <= 0 \/ rowRes.value > aircraft.numOfRows
                THEN InvalidIndices
                ELSE <<rowRes.value - 1, CharCode(colChar) - CharCode("A")>>

\* a mutated decoding: characters after the column letter are ignored
getSeatIndices_trailing(f, seatNumber) ==
    IF f.aircraftId \notin DOMAIN aircrafts \/ seatNumber = "" THEN InvalidIndices
    ELSE
      LET aircraft == aircrafts[f.aircraftId]
          colIndex == find_first_not_of_digits(seatNumber)
      IN  IF colIndex = npos \/ colIndex = 0
          THEN InvalidIndices
          ELSE
            LET colChar == CharAt(seatNumber, colIndex)
                rowRes  == stoi(SubSeq(seatNumber, 1, colIndex))
            IN  IF CharCode(colChar) < CharCode("A")
                   \/ CharCode(colChar) > aircraft.numOfRowSeats + CharCode("A") - 1
                THEN InvalidIndices
                ELSE IF rowRes.throws THEN InvalidIndices
                ELSE IF rowRes.value <= 0 \/ rowRes.value > aircraft.numOfRows
                THEN InvalidIndices
                ELSE <<rowRes.value - 1, CharCode(colChar) - CharCode("A")>>

\* FlightModel::getSeatIndices for a flight record f
getSeatIndices(f, seatNumber) ==
    IF f.aircraftId \notin DOMAIN aircrafts THEN InvalidIndices
    ELSE IF seatNumber = "" THEN InvalidIndices
    ELSE
      LET aircraft == aircrafts[f.aircraftId]
          colIndex == find_first_not_of_digits(seatNumber)
      IN  IF colIndex = npos \/ colIndex = 0 \/ (Len(seatNumber) - colIndex) # 1
          THEN InvalidIndices
          ELSE
            LET colChar == CharAt(seatNumber, colIndex)
                rowRes  == stoi(SubSeq(seatNumber, 1, colIndex))
            IN  IF CharCode(colChar) < CharCode("A")
                   \/ CharCode(colChar) > aircraft.numOfRowSeats + CharCode("A") - 1
                THEN InvalidIndices
                ELSE IF rowRes.throws THEN InvalidIndices
                ELSE IF rowRes.value <= 0 \/ rowRes.value > aircraft.numOfRows
                THEN InvalidIndices
                ELSE <<rowRes.value - 1, CharCode(colChar) - CharCode("A")>>

\* FlightModel::isValidSeat
isValidSeat(f, seatNumber) ==
    LET seatIndices == getSeatIndices(f, seatNumber)
    IN  seatIndices[1] # -1 /\ seatIndices[2] # -1

\* FlightModel::getSeatStatus; the caller has established isValidSeat
\* (otherwise the function throws invalid_argument)
getSeatStatus(f, seatNumber) ==
    LET seatIndices == getSeatIndices(f, seatNumber)
    IN  f.seatMap[seatIndices[1]][seatIndices[2]]

\* FlightModel::setSeatStatus on the flight stored under flightId in fl;
\* the caller has established isValidSeat (otherwise it throws)
setSeatStatus(fl, flightId, seatNumber, status) ==
    LET seatIndices == getSeatIndices(fl[flightId], seatNumber)
    IN  [fl EXCEPT ![flightId].seatMap[seatIndices[1]][seatIndices[2]] = status]

-----------------------------------------------------------------------------
(* ReservationService::getSeatPrice *)

PriceThrows == -1

\* a mutated row band: business class starts one row early
getSeatPrice_band(seatNumber, loyaltyPoints) ==
    LET rowRes == stoi(SubSeq(seatNumber, 1, Len(seatNumber) - 1))
        row    == rowRes.value
        col    == CharAt(seatNumber, Len(seatNumber) - 1)
        band   == IF row >= 1 /\ row < 5 THEN 200 * Scale
                  ELSE IF row >= 5 /\ row <= 15 THEN 150 * Scale
                  ELSE 100 * Scale
        prem   == IF col = "A" \/ col = "F" THEN 20 * Scale
                  ELSE IF col = "C" \/ col = "D" THEN 10 * Scale
                  ELSE 0
        basePrice == band + prem
    IN  basePrice - Min(loyaltyPoints, (basePrice * 3) \div 10)

\* a mutated premium: the aisle premium is given to column D only
getSeatPrice_aisle(seatNumber, loyaltyPoints) ==
    LET rowRes == stoi(SubSeq(seatNumber, 1, Len(seatNumber) - 1))
        row    == rowRes.value
        col    == CharAt(seatNumber, Len(seatNumber) - 1)
        band   == IF row >= 1 /\ row <= 5 THEN 200 * Scale
                  ELSE IF row >= 6 /\ row <= 15 THEN 150 * Scale
                  ELSE 100 * Scale
        prem   == IF col = "A" \/ col = "F" THEN 20 * Scale
                  ELSE IF col = "D" THEN 10 * Scale
                  ELSE 0
        basePrice == band + prem
    IN  basePrice - Min(loyaltyPoints, (basePrice * 3) \div 10)

\* a mutated discount: the 30% cap is missing
getSeatPrice_nocap(seatNumber, loyaltyPoints) ==
    LET rowRes == stoi(SubSeq(seatNumber, 1, Len(seatNumber) - 1))
        row    == rowRes.value
        col    == CharAt(seatNumber, Len(seatNumber) - 1)
        band   == IF row >= 1 /\ row <= 5 THEN 200 * Scale
                  ELSE IF row >= 6 /\ row <= 15 THEN 150 * Scale
                  ELSE 100 * Scale
        prem   == IF col = "A" \/ col = "F" THEN 20 * Scale
                  ELSE IF col = "C" \/ col = "D" THEN 10 * Scale
                  ELSE 0
        basePrice == band + prem
    IN  basePrice - loyaltyPoints

getSeatPrice(seatNumber, loyaltyPoints) ==
    IF seatNumber = ""
    THEN (100 * Scale) - Min(loyaltyPoints, (100 * Scale * 3) \div 10)
    ELSE
      LET rowRes == stoi(SubSeq(seatNumber, 1, Len(seatNumber) - 1))
          row    == rowRes.value
          col    == CharAt(seatNumber, Len(seatNumber) - 1)
          band   == IF row >= 1 /\ row <= 5 THEN 200 * Scale
                    ELSE IF row >= 6 /\ row <= 15 THEN 150 * Scale
                    ELSE 100 * Scale
          prem   == IF col = "A" \/ col = "F" THEN 20 * Scale
                    ELSE IF col = "C" \/ col = "D" THEN 10 * Scale
                    ELSE 0
          basePrice   == band + prem
          maxDiscount == (basePrice * 3) \div 10
          discount    == Min(loyaltyPoints, maxDiscount)
      IN  IF rowRes.throws THEN PriceThrows ELSE basePrice - discount

-----------------------------------------------------------------------------
(* Repositories: in-memory maps keyed by id *)

\* UserRepository's constructor: the username-to-id map built from the users
\* loaded (records without a username belong to no login)
UsernameMap(u) ==
    LET named == {id \in DOMAIN u : "username" \in DOMAIN u[id]}
    IN  [username \in {u[id].username : id \in named} |->
            CHOOSE id \in named : u[id].username = username]

findUserById(userId) == userId \in DOMAIN users

findFlightById(flightId) == flightId \in DOMAIN flights

findReservationById(reservationId) == reservationId \in DOMAIN reservations

findPaymentById(paymentId) == paymentId \in DOMAIN payments

\* the map m with key k bound to v (operator[] assignment of unordered_map)
Put(m, k, v) == [x \in DOMAIN m \cup {k} |-> IF x = k THEN v ELSE m[x]]

\* the map m without key k (unordered_map::erase)
Erase(m, k) == [x \in DOMAIN m \ {k} |-> m[x]]

\* UserManagementService::getUserRole
getUserRole(userId) ==
    IF findUserById(userId) THEN users[userId].role ELSE "INVALID"

\* PassengerController::authenticatePassenger
authenticatePassenger(passengerId) == getUserRole(passengerId) = "Passenger"

\* BookingManagerController::authenticateBookingManager
authenticateBookingManager(bookingManagerId) ==
    getUserRole(bookingManagerId) = "BookingManager"

\* the ids IDGenerator::generateUniqueID can produce, with their prefixes
ReservationIds == {"RES-" \o to_string(i) : i \in 1..MaxBookings}

PaymentIds == {"PAY-" \o to_string(i) : i \in 1..MaxBookings}

-----------------------------------------------------------------------------
(* Payment strategies *)

\* std::string::find(c): first position (from 0) of c, npos when absent
find(s, c) ==
    LET hits == {i \in 0..(Len(s) - 1) : CharAt(s, i) = c}
    IN  IF hits = {} THEN npos
        ELSE CHOOSE i \in hits : \A j \in hits : i <= j

allDigits(s) == \A i \in 0..(Len(s) - 1) : isdigit(CharAt(s, i))

\* PaypalPayment::PaypalPayment: TRUE when the constructor throws
PaypalPaymentThrows(email) ==
    \/ email = ""
    \/ find(email, "@") = npos
    \/ SubSeq(email, find(email, "@") + 2, Len(email)) # "paypal.com"

\* CreditPayment::CreditPayment: TRUE when the constructor throws
CreditPaymentThrows(number, expiry, cvv_code) ==
    \/ number = "" \/ expiry = "" \/ cvv_code = ""
    \/ Len(number) # 16
    \/ Len(expiry) # 5 \/ CharAt(expiry, 2) # "/"
    \/ Len(cvv_code) # 3
    \/ ~allDigits(cvv_code)
    \/ \E i \in 0..(Len(expiry) - 1) :
          ~isdigit(CharAt(expiry, i)) /\ CharAt(expiry, i) # "/"
    \/ ~allDigits(number)

\* PaymentStrategyFactory::createPaymentStrategy: the strategy type, or
\* "throws" when the factory or the strategy constructor throws
createPaymentStrategy(type, details) ==
    IF type = "paypal" THEN
        IF "email" \notin DOMAIN details THEN "throws"
        ELSE IF details["email"] = "" THEN "throws"
        ELSE IF PaypalPaymentThrows(details["email"]) THEN "throws"
        ELSE "paypal"
    ELSE IF type = "credit" THEN
        IF {"cardNumber", "expirationDate", "cvv"} \subseteq DOMAIN details
        THEN IF CreditPaymentThrows(details["cardNumber"],
                                    details["expirationDate"], details["cvv"])
             THEN "throws" ELSE "credit"
        ELSE "throws"
    ELSE IF type = "cash" THEN "cash"
    ELSE "throws"

\* a mutated payment service: the payment is stored before its strategy is
\* validated
createPayment_early(passengerId, amount, method, paymentDetails, newId) ==
    LET stored == Put(payments, newId,
                      [passengerId |-> passengerId, amount |-> amount,
                       method |-> method, status |-> "PENDING"])
    IN  IF createPaymentStrategy(method, paymentDetails) = "throws"
        THEN [ok |-> FALSE, paymentId |-> "", payments |-> stored]
        ELSE [ok |-> TRUE, paymentId |-> newId, payments |-> stored]

\* PaymentService::createPayment; newId is the id the PaymentModel
\* constructor draws (an id no stored payment has)
createPayment(passengerId, amount, method, paymentDetails, newId) ==
    LET strategy == createPaymentStrategy(method, paymentDetails)
        failed   == [ok |-> FALSE, paymentId |-> "", payments |-> payments]
    IN  IF strategy = "throws" THEN failed
        ELSE IF passengerId = "" \/ amount <= 0 THEN failed
        ELSE IF ~findUserById(passengerId) THEN failed
        ELSE IF findPaymentById(newId) THEN failed
        ELSE [ok |-> TRUE, paymentId |-> newId,
              payments |-> Put(payments, newId,
                               [passengerId |-> passengerId, amount |-> amount,
                                method |-> strategy, status |-> "PENDING"])]

-----------------------------------------------------------------------------
(* ReservationService *)

NULLOPT == "nullopt"

INVALID_ARGUMENT == "invalid_argument"

\* the outcome of an operation: its return value (or the exception that
\* leaves it) and the repositories as it leaves them
Outcome(ret, u, f, r, p) ==
    [ret |-> ret, users |-> u, flights |-> f, reservations |-> r, payments |-> p]

Unchanged(ret) == Outcome(ret, users, flights, reservations, payments)

\* ReservationModelBuilder::build with ReservationModel's constructor: TRUE
\* when it throws
buildThrows(flightId, passengerId, seatNumber, paymentId, pays) ==
    \/ flightId = "" \/ passengerId = "" \/ seatNumber = "" \/ paymentId = ""
    \/ ~findUserById(passengerId)
    \/ ~findFlightById(flightId)
    \/ paymentId \notin DOMAIN pays

\* a mutated booking: the seat-occupied check is missing
addReservation_nocheck(flightId, seatNumber, passengerId, paymentMethod, paymentDetails, newPaymentId, newReservationId) ==
    IF ~findUserById(passengerId) \/ ~findFlightById(flightId)
    THEN Unchanged(NULLOPT)
    ELSE IF users[passengerId].role # "Passenger" THEN Unchanged(NULLOPT)
    ELSE IF ~isValidSeat(flights[flightId], seatNumber)
    THEN Unchanged(INVALID_ARGUMENT)
    ELSE
      LET seatPrice == getSeatPrice(seatNumber, users[passengerId].loyaltyPoints)
          pay == createPayment(passengerId, seatPrice, paymentMethod,
                               paymentDetails, newPaymentId)
      IN  IF ~pay.ok
          THEN Outcome(NULLOPT, users, flights, reservations, pay.payments)
          ELSE Outcome(newReservationId, users,
                       setSeatStatus(flights, flightId, seatNumber, TRUE),
                       Put(reservations, newReservationId,
                           [flightId |-> flightId, passengerId |-> passengerId,
                            seatNumber |-> seatNumber, status |-> "CONFIRMED",
                            paymentId |-> pay.paymentId]),
                       pay.payments)

\* a mutated booking: a non-passenger user is charged before the role is
\* looked at
addReservation_role(flightId, seatNumber, passengerId, paymentMethod, paymentDetails, newPaymentId, newReservationId) ==
    IF ~findUserById(passengerId) \/ ~findFlightById(flightId)
    THEN Unchanged(NULLOPT)
    ELSE IF ~isValidSeat(flights[flightId], seatNumber)
    THEN Unchanged(INVALID_ARGUMENT)
    ELSE IF getSeatStatus(flights[flightId], seatNumber) THEN Unchanged(NULLOPT)
    ELSE
      LET seatPrice == getSeatPrice(seatNumber, users[passengerId].loyaltyPoints)
          pay == createPayment(passengerId, seatPrice, paymentMethod,
                               paymentDetails, newPaymentId)
      IN  IF ~pay.ok \/ users[passengerId].role # "Passenger"
          THEN Outcome(NULLOPT, users, flights, reservations, pay.payments)
          ELSE Outcome(newReservationId, users,
                       setSeatStatus(flights, flightId, seatNumber, TRUE),
                       Put(reservations, newReservationId,
                           [flightId |-> flightId, passengerId |-> passengerId,
                            seatNumber |-> seatNumber, status |-> "CONFIRMED",
                            paymentId |-> pay.paymentId]),
                       pay.payments)

\* a mutated adjustment: the deduction is not capped by the balance
newLoyaltyPoints_uncapped(loyaltyPoints, seatPrice) ==
    IF loyaltyPoints > 0
    THEN loyaltyPoints - (seatPrice \div 10)
    ELSE Min(100 * Scale, loyaltyPoints + (seatPrice \div 10))

\* the loyalty balance addReservation computes from the balance before the
\* booking and the seat price
newLoyaltyPoints(loyaltyPoints, seatPrice) ==
    IF loyaltyPoints > 0
    THEN loyaltyPoints - Min(loyaltyPoints, seatPrice \div 10)
    ELSE IF loyaltyPoints + (seatPrice \div 10) > 100 * Scale
         THEN 100 * Scale
         ELSE loyaltyPoints + (seatPrice \div 10)

\* ReservationService::addReservation; newPaymentId and newReservationId are
\* the ids the constructors draw from the id generator
addReservation(flightId, seatNumber, passengerId, paymentMethod, paymentDetails, newPaymentId, newReservationId) ==
    IF ~findUserById(passengerId) THEN Unchanged(NULLOPT)
    ELSE IF users[passengerId].role # "Passenger" THEN Unchanged(NULLOPT)
    ELSE IF ~findFlightById(flightId) THEN Unchanged(NULLOPT)
    ELSE IF ~isValidSeat(flights[flightId], seatNumber)
    THEN Unchanged(INVALID_ARGUMENT)          \* getSeatStatus throws
    ELSE IF getSeatStatus(flights[flightId], seatNumber)
    THEN Unchanged(NULLOPT)                   \* seat already booked
    ELSE
      LET loyaltyPoints == users[passengerId].loyaltyPoints
          seatPrice == getSeatPrice(seatNumber, loyaltyPoints)
          newPoints == newLoyaltyPoints(loyaltyPoints, seatPrice)
          pay == createPayment(passengerId, seatPrice, paymentMethod,
                               paymentDetails, newPaymentId)
      IN  IF ~pay.ok
          THEN Outcome(NULLOPT, users, flights, reservations, pay.payments)
          ELSE IF buildThrows(flightId, passengerId, seatNumber,
                              pay.paymentId, pay.payments)
          THEN Outcome(INVALID_ARGUMENT, users, flights, reservations,
                       pay.payments)
          ELSE IF findReservationById(newReservationId)
          THEN Outcome(NULLOPT, users, flights, reservations, pay.payments)
          ELSE Outcome(newReservationId,
                       [users EXCEPT ![passengerId].loyaltyPoints = newPoints],
                       setSeatStatus(flights, flightId, seatNumber, TRUE),
                       Put(reservations, newReservationId,
                           [flightId |-> flightId, passengerId |-> passengerId,
                            seatNumber |-> seatNumber, status |-> "CONFIRMED",
                            paymentId |-> pay.paymentId]),
                       pay.payments)

\* a mutated update: the old seat is left booked
updateReservation_keepold(reservation) ==
    IF ~findReservationById(reservation.reservationId)
       \/ ~findFlightById(reservation.flightId)
    THEN Unchanged("false")
    ELSE
      LET old == reservations[reservation.reservationId]
          seatChanged == old.flightId # reservation.flightId
                         \/ old.seatNumber # reservation.seatNumber
          stored == Put(reservations, reservation.reservationId,
                        [f \in DOMAIN old |-> reservation[f]])
      IN  IF seatChanged /\ ~isValidSeat(flights[reservation.flightId],
                                         reservation.seatNumber)
          THEN Unchanged(INVALID_ARGUMENT)
          ELSE IF seatChanged /\ getSeatStatus(flights[reservation.flightId],
                                               reservation.seatNumber)
          THEN Unchanged("false")
          ELSE IF ~seatChanged
          THEN Outcome("true", users, flights, stored, payments)
          ELSE Outcome("true", users,
                       setSeatStatus(flights, reservation.flightId,
                                     reservation.seatNumber, TRUE),
                       stored, payments)

\* a mutated update: the new seat is not checked for being booked
updateReservation_nocheck(reservation) ==
    IF ~findReservationById(reservation.reservationId)
       \/ ~findFlightById(reservation.flightId)
    THEN Unchanged("false")
    ELSE
      LET old == reservations[reservation.reservationId]
          seatChanged == old.flightId # reservation.flightId
                         \/ old.seatNumber # reservation.seatNumber
          stored == Put(reservations, reservation.reservationId,
                        [f \in DOMAIN old |-> reservation[f]])
          unbooked == IF findFlightById(old.flightId)
                      THEN setSeatStatus(flights, old.flightId,
                                         old.seatNumber, FALSE)
                      ELSE flights
      IN  IF seatChanged /\ ~isValidSeat(flights[reservation.flightId],
                                         reservation.seatNumber)
          THEN Unchanged(INVALID_ARGUMENT)
          ELSE IF ~seatChanged
          THEN Outcome("true", users, flights, stored, payments)
          ELSE Outcome("true", users,
                       setSeatStatus(unbooked, reservation.flightId,
                                     reservation.seatNumber, TRUE),
                       stored, payments)

\* ReservationService::updateReservation; reservation is the ReservationModel
\* passed by reference, a record with reservationId and the stored fields
updateReservation(reservation) ==
    IF ~findReservationById(reservation.reservationId) THEN Unchanged("false")
    ELSE
      LET old == reservations[reservation.reservationId]
          oldSeatNumber == old.seatNumber
          oldFlightId   == old.flightId
          seatChanged   == old.flightId # reservation.flightId
                           \/ old.seatNumber # reservation.seatNumber
          stored == Put(reservations, reservation.reservationId,
                        [f \in DOMAIN old |-> reservation[f]])
      IN  IF ~findFlightById(reservation.flightId) THEN Unchanged("false")
          ELSE IF seatChanged /\ ~isValidSeat(flights[reservation.flightId],
                                              reservation.seatNumber)
          THEN Unchanged(INVALID_ARGUMENT)    \* getSeatStatus throws
          ELSE IF seatChanged /\ getSeatStatus(flights[reservation.flightId],
                                               reservation.seatNumber)
          THEN Unchanged("false")             \* new seat already booked
          ELSE IF ~seatChanged
          THEN Outcome("true", users, flights, stored, payments)
          ELSE IF findFlightById(oldFlightId)
                  /\ ~isValidSeat(flights[oldFlightId], oldSeatNumber)
          THEN Outcome(INVALID_ARGUMENT, users, flights, stored, payments)
          ELSE
            LET unbooked == IF findFlightById(oldFlightId)
                            THEN setSeatStatus(flights, oldFlightId,
                                               oldSeatNumber, FALSE)
                            ELSE flights
            IN  Outcome("true", users,
                        setSeatStatus(unbooked, reservation.flightId,
                                      reservation.seatNumber, TRUE),
                        stored, payments)

\* a mutated delete: the seat is not unbooked
deleteReservation_keepseat(reservationId) ==
    IF ~findReservationById(reservationId) THEN Unchanged("false")
    ELSE Outcome("true", users, flights, Erase(reservations, reservationId),
                 payments)

\* ReservationService::deleteReservation
deleteReservation(reservationId) ==
    IF ~findReservationById(reservationId) THEN Unchanged("false")
    ELSE
      LET reservation == reservations[reservationId]
      IN  IF ~findFlightById(reservation.flightId)
          THEN Outcome("true", users, flights,
                       Erase(reservations, reservationId), payments)
          ELSE IF ~isValidSeat(flights[reservation.flightId],
                               reservation.seatNumber)
          THEN Unchanged(INVALID_ARGUMENT)    \* setSeatStatus throws
          ELSE Outcome("true", users,
                       setSeatStatus(flights, reservation.flightId,
                                     reservation.seatNumber, FALSE),
                       Erase(reservations, reservationId), payments)

-----------------------------------------------------------------------------
(* Controllers *)

\* PassengerController::bookFlight
bookFlight(passengerId, flightId, seatNumber, paymentType, paymentDetails, newPaymentId, newReservationId) ==
    IF ~authenticatePassenger(passengerId) THEN Unchanged(NULLOPT)
    ELSE addReservation(passengerId, flightId, seatNumber, paymentType,
                        paymentDetails, newPaymentId, newReservationId)

\* BookingManagerController::createReservation
createReservation(bookingManagerId, passengerId, flightId, seatNumber, paymentType, paymentDetails, newPaymentId, newReservationId) ==
    IF ~authenticateBookingManager(bookingManagerId) THEN Unchanged(NULLOPT)
    ELSE addReservation(flightId, seatNumber, passengerId, paymentType,
                        paymentDetails, newPaymentId, newReservationId)

-----------------------------------------------------------------------------
(* Inputs the operations are called with *)

FlightInputs == {"FL-1", "FL-2", "FL-9"}

\* 1B is no seat of flight FL-2; 01A decodes to the cell of 1A
SeatInputs == {"1A", "1B", "01A"}

UserInputs == {"PAS-1", "BM-1", "PAS-9"}

EmptyJSON == [k \in {} |-> ""]

Cash == <<"cash", EmptyJSON>>

\* <<payment method, payment details>>
PaymentInputs ==
    { Cash,
      <<"paypal", [email |-> "a@paypal.com"]>>,
      <<"paypal", [email |-> "a@pay.com"]>>,
      <<"credit", [cardNumber |-> "4000111122223333",
                   expirationDate |-> "12/30", cvv |-> "12"]>>,
      <<"bitcoin", EmptyJSON>> }

\* <<flightId, seatNumber, passengerId, payment>> of the booking calls of a
\* passenger paying cash
BookingInputs == {"FL-1", "FL-2"} \X SeatInputs \X {"PAS-1"} \X {Cash}

\* the booking calls with every kind of wrong argument: every flight, seat
\* and user paying cash, every payment of a passenger for a seat of FL-1,
\* and a wrong payment together with a wrong user or flight
ErrorInputs ==
    ({"FL-1", "FL-9"} \X {"1A", "1B", "1C", ""} \X UserInputs \X {Cash})
      \cup ({"FL-1"} \X {"1A", "1B", "1C"} \X {"PAS-1"} \X PaymentInputs)
      \cup ({"FL-1", "FL-9"} \X {"1A"} \X {"BM-1", "PAS-1"}
               \X {<<"bitcoin", EmptyJSON>>})

\* The id a constructor draws: IDGenerator::generateUniqueID is redrawn until
\* the repository does not hold the id.  Ids are only compared for equality,
\* so the draw is represented by the first id of the pool that is free; NoId
\* stands for the draw when the model's pool is used up.
NoId == ""

FirstFree(prefix, repo) ==
    LET free == {i \in 1..MaxBookings : (prefix \o to_string(i)) \notin DOMAIN repo}
    IN  IF free = {} THEN NoId
        ELSE prefix \o to_string(CHOOSE i \in free : \A j \in free : i <= j)

NewPaymentId == FirstFree("PAY-", payments)

NewReservationId == FirstFree("RES-", reservations)

\* an outcome is taken only if it did not need an id from a used-up pool
WithinPools(o) ==
    /\ NoId \notin DOMAIN o.payments
    /\ NoId \notin DOMAIN o.reservations

\* pricing inputs: every seat of every row width
LoyaltyInputs ==
    {0, 1, 10 * Scale, 33 * Scale, (33 * Scale) + 1, 66 * Scale, 100 * Scale}

PriceInputs ==
    { [seat |-> SeatCode(t[1], t[2]), row |-> t[1], col |-> t[2],
       seatsPerRow |-> t[3], points |-> t[4]] :
         t \in { u \in (1..MaxRow) \X (0..(MAX_SEATS_PER_ROW - 1))
                       \X (1..MAX_SEATS_PER_ROW) \X LoyaltyInputs :
                    u[2] < u[3] } }

\* priceOut before getSeatPrice is called: no result
NoPrice == <<>>

-----------------------------------------------------------------------------
(* State machine *)

\* the record of the last call: its arguments, what it returned, and for a
\* call on a stored reservation the flight and seat that reservation had
NoCall ==
    [op |-> "none", ret |-> "", caller |-> "", flightId |-> "",
     seatNumber |-> "", passengerId |-> "", reservationId |-> "",
     oldFlightId |-> "", oldSeatNumber |-> "", status |-> FALSE,
     method |-> "", details |-> EmptyJSON]

InitUsers ==
    [id \in {"PAS-1", "BM-1"} |->
        IF id = "PAS-1"
        THEN [role |-> "Passenger", loyaltyPoints |-> 0]
        ELSE [role |-> "BookingManager", loyaltyPoints |-> 0]]

InitAircrafts ==
    [id \in {"AC-1", "AC-2"} |->
        IF id = "AC-1"
        THEN [capacity |-> 2, numOfRowSeats |-> 2, numOfRows |-> 1]
        ELSE [capacity |-> 1, numOfRowSeats |-> 1, numOfRows |-> 1]]

\* the crew member repository: one pilot
InitCrewMembers ==
    [id \in {"CM-1"} |-> [name |-> "Amr", role |-> "Pilot"]]

InitFlights ==
    [id \in {"FL-1", "FL-2"} |->
        IF id = "FL-1"
        THEN [aircraftId |-> "AC-1",
              seatMap |-> [r \in 0..0 |-> [c \in 0..1 |-> FALSE]]]
        ELSE [aircraftId |-> "AC-2",
              seatMap |-> [r \in 0..0 |-> [c \in 0..0 |-> FALSE]]]]

InitRepos ==
    /\ users = InitUsers
    /\ aircrafts = InitAircrafts
    /\ flights = InitFlights
    /\ crewMembers = InitCrewMembers
    /\ reservations = [id \in {} |-> 0]
    /\ payments = [id \in {} |-> 0]
    /\ last = NoCall

NoPriceInput ==
    [seat |-> "", row |-> 0, col |-> 0, seatsPerRow |-> 1, points |-> 0]

Init ==
    /\ InitRepos
    /\ priceIn = NoPriceInput
    /\ priceOut = NoPrice
    /\ usernameToIdMap = UsernameMap(users)

\* the repositories and the call record after an operation
Apply(o, call) ==
    /\ WithinPools(o)
    /\ users' = o.users
    /\ flights' = o.flights
    /\ reservations' = o.reservations
    /\ payments' = o.payments
    /\ last' = [call EXCEPT !.ret = o.ret]
    /\ UNCHANGED <<aircrafts, crewMembers, priceIn, priceOut, usernameToIdMap>>

AddCall(op, caller, in) ==
    [NoCall EXCEPT !.op = op, !.caller = caller, !.flightId = in[1],
                   !.seatNumber = in[2], !.passengerId = in[3],
                   !.method = in[4][1], !.details = in[4][2]]

AddReservationOn(inputs) ==
    \E in \in inputs :
        Apply(addReservation(in[1], in[2], in[3], in[4][1], in[4][2],
                             NewPaymentId, NewReservationId),
              AddCall("addReservation", "", in))

AddReservation == AddReservationOn(BookingInputs)

AddReservationAny == AddReservationOn(ErrorInputs)

\* updateReservation called with a copy of a stored reservation in which the
\* flight and the seat are set to the inputs (for an id that is not stored:
\* with a reservation of that id)
UpdateReservation ==
    \E reservationId \in ReservationIds, flightId \in FlightInputs,
       seatNumber \in SeatInputs :
        LET copy == IF findReservationById(reservationId)
                    THEN reservations[reservationId]
                    ELSE [flightId |-> flightId, passengerId |-> "PAS-1",
                          seatNumber |-> seatNumber, status |-> "CONFIRMED",
                          paymentId |-> "PAY-1"]
            reservation ==
                [reservationId |-> reservationId, flightId |-> flightId,
                 passengerId |-> copy.passengerId, seatNumber |-> seatNumber,
                 status |-> copy.status, paymentId |-> copy.paymentId]
        IN  Apply(updateReservation(reservation),
                  [NoCall EXCEPT !.op = "updateReservation",
                                 !.reservationId = reservationId,
                                 !.flightId = flightId,
                                 !.seatNumber = seatNumber,
                                 !.oldFlightId = copy.flightId,
                                 !.oldSeatNumber = copy.seatNumber])

DeleteReservation ==
    \E reservationId \in ReservationIds :
        Apply(deleteReservation(reservationId),
              [NoCall EXCEPT !.op = "deleteReservation",
                             !.reservationId = reservationId,
                             !.oldFlightId =
                                 IF findReservationById(reservationId)
                                 THEN reservations[reservationId].flightId
                                 ELSE "",
                             !.oldSeatNumber =
                                 IF findReservationById(reservationId)
                                 THEN reservations[reservationId].seatNumber
                                 ELSE ""])

BookFlight ==
    \E in \in BookingInputs \cup ({"FL-1"} \X {"1B"} \X UserInputs \X {Cash}) :
        Apply(bookFlight(in[3], in[1], in[2], in[4][1], in[4][2],
                         NewPaymentId, NewReservationId),
              AddCall("bookFlight", in[3], in))

CreateReservation ==
    \E in \in BookingInputs, bookingManagerId \in {"BM-1", "PAS-1"} :
        Apply(createReservation(bookingManagerId, in[3], in[1], in[2],
                                in[4][1], in[4][2],
                                NewPaymentId, NewReservationId),
              AddCall("createReservation", bookingManagerId, in))

\* getSeatPrice applied to the pricing input
GetSeatPrice ==
    /\ priceOut = NoPrice
    /\ priceOut' = <<getSeatPrice(priceIn.seat, priceIn.points)>>
    /\ UNCHANGED <<repos, last, priceIn>>

\* the reservation service called by a passenger paying cash
Next == AddReservation \/ UpdateReservation \/ DeleteReservation

Spec == Init /\ [][Next]_vars

\* the booking call with every kind of argument, and cancellation
NextErrors == AddReservationAny \/ DeleteReservation

SpecErrors == Init /\ [][NextErrors]_vars

\* the controllers' booking operations, and cancellation
NextControllers == BookFlight \/ CreateReservation \/ DeleteReservation

SpecControllers == Init /\ [][NextControllers]_vars

\* the pricing function on each of its inputs
InitPrice ==
    /\ InitRepos
    /\ priceIn \in PriceInputs
    /\ priceOut = NoPrice
    /\ usernameToIdMap = UsernameMap(users)

NextPrice == GetSeatPrice

SpecPrice == InitPrice /\ [][NextPrice]_vars

-----------------------------------------------------------------------------
(* Pricing properties, checked under SpecPrice *)

\* getSeatPrice has returned a price for the pricing input
Priced == priceOut # NoPrice /\ priceOut # <<PriceThrows>>

\* the price getSeatPrice returned
price == priceOut[1]

\* base price of a row as the documentation's bands give it
BandOf(row) ==
    IF row <= 5 THEN 200 * Scale
    ELSE IF row <= 15 THEN 150 * Scale
    ELSE 100 * Scale

\* column letters by their index: A = 0, C = 2, D = 3, F = 5
WindowPremium == 20 * Scale

AislePremium == 10 * Scale

\* the premium of a column when the window columns are A and F
PremiumAF(col) ==
    IF col \in {0, 5} THEN WindowPremium
    ELSE IF col \in {2, 3} THEN AislePremium
    ELSE 0

\* the premium of a column when the window columns are A and the last column
\* of a row of seatsPerRow seats
PremiumLast(col, seatsPerRow) ==
    IF col = 0 \/ col = seatsPerRow - 1 THEN WindowPremium
    ELSE IF col \in {2, 3} THEN AislePremium
    ELSE 0

\* C8: with zero loyalty points the price of a seat is the base price of its
\* row band (200 for rows 1..5, 150 for rows 6..15, 100 from row 16 on) plus
\* a column premium of 0, 10 or 20; a seat of column B costs the base price
\* alone; 3A costs 220, 10C costs 160 and 20B costs 100.
C8_BasePriceBands ==
    (Priced /\ priceIn.points = 0) =>
        /\ price - BandOf(priceIn.row) \in {0, AislePremium, WindowPremium}
        /\ (priceIn.col = 1 => price = BandOf(priceIn.row))
        /\ (priceIn.seat = "3A" => price = 220 * Scale)
        /\ (priceIn.seat = "10C" => price = 160 * Scale)
        /\ (priceIn.seat = "20B" => price = 100 * Scale)

\* a business-class seat without premium, priced at zero points
C8_Witness ==
    /\ Priced
    /\ priceIn.seat = "6B" /\ priceIn.points = 0
    /\ price = 150 * Scale

\* C9 (as the code has it): with zero loyalty points the premium is 20 for a
\* seat of column A or F, 10 for a seat of column C or D and 0 for every
\* other column, whatever the number of seats per row is.
C9_PremiumColumnsAF ==
    (Priced /\ priceIn.points = 0) =>
        price = BandOf(priceIn.row) + PremiumAF(priceIn.col)

\* C9 (as stated): the premium is 20 for column A or the last column of the
\* aircraft's rows, 10 for column C or D and 0 otherwise.
C9_PremiumLastColumn ==
    (Priced /\ priceIn.points = 0) =>
        price = BandOf(priceIn.row)
                   + PremiumLast(priceIn.col, priceIn.seatsPerRow)

\* the last column of a four-seat row is priced as an aisle seat
C9_Witness ==
    /\ Priced
    /\ priceIn.seat = "1D" /\ priceIn.seatsPerRow = 4 /\ priceIn.points = 0
    /\ price = 210 * Scale

\* C10: for every seat and every balance p >= 0 the discount subtracted is
\* min(p, 30% of base price plus premium); the price is at least 70% of base
\* plus premium and at most base plus premium.
C10_DiscountCap ==
    Priced =>
        LET full == BandOf(priceIn.row) + PremiumAF(priceIn.col)
        IN  /\ full - price = Min(priceIn.points, (full * 3) \div 10)
            /\ price * 10 >= full * 7
            /\ price <= full

\* a balance above the cap: 100 points on a 220 seat give 66 off
C10_Witness ==
    /\ Priced
    /\ priceIn.seat = "3A" /\ priceIn.points = 100 * Scale
    /\ price = 154 * Scale

-----------------------------------------------------------------------------
(* Booking properties, checked under Spec *)

\* the seat-map cell a seat code of a stored flight decodes to
CellOf(flightId, seatNumber) == getSeatIndices(flights[flightId], seatNumber)

\* the cells of a flight's seat map
Cells(flightId) ==
    {<<r, c>> : r \in DOMAIN flights[flightId].seatMap,
                c \in 0..(aircrafts[flights[flightId].aircraftId].numOfRowSeats - 1)}

\* the stored reservations that hold a cell of a flight
Holders(flightId, cell) ==
    {id \in DOMAIN reservations :
        /\ reservations[id].flightId = flightId
        /\ CellOf(flightId, reservations[id].seatNumber) = cell}

\* seat s of flight f is a seat of the flight and is marked occupied
Occupied(flightId, seatNumber) ==
    /\ isValidSeat(flights[flightId], seatNumber)
    /\ getSeatStatus(flights[flightId], seatNumber)

\* ids of a call made in the current state: ids no repository holds
FreshPaymentId == "PAY-0"

FreshReservationId == "RES-0"

\* the last call was operation op and returned a reservation
Booked(op) == last.op = op /\ last.ret \in ReservationIds

\* C1: after addReservation succeeds for flight f and seat s the seat is
\* occupied and the reservation is stored; and as long as a stored
\* reservation holds (f, s), an addReservation for (f, s), whoever the
\* passenger and whatever the payment, returns no reservation and changes
\* no repository.
C1_SecondBookingFails ==
    /\ Booked("addReservation") =>
          /\ last.ret \in DOMAIN reservations
          /\ reservations[last.ret].flightId = last.flightId
          /\ reservations[last.ret].seatNumber = last.seatNumber
          /\ Occupied(last.flightId, last.seatNumber)
    /\ \A id \in DOMAIN reservations :
          /\ Occupied(reservations[id].flightId, reservations[id].seatNumber)
          /\ \A passengerId \in UserInputs, pay \in PaymentInputs :
                addReservation(reservations[id].flightId,
                               reservations[id].seatNumber, passengerId,
                               pay[1], pay[2],
                               FreshPaymentId, FreshReservationId)
                  = Unchanged(NULLOPT)

\* a second booking of a held seat has been refused
C1_Witness ==
    /\ last.op = "addReservation" /\ last.ret = NULLOPT
    /\ last.passengerId = "PAS-1" /\ last.method = "cash"
    /\ \E id \in DOMAIN reservations :
          /\ reservations[id].flightId = last.flightId
          /\ reservations[id].seatNumber = last.seatNumber
          /\ Occupied(last.flightId, last.seatNumber)

\* C2: after deleteReservation succeeds for a reservation on flight f and
\* seat s whose flight exists, seat s of f is free and an addReservation for
\* (f, s) by a passenger with a valid payment returns a reservation.
C2_DeleteFreesSeat ==
    (/\ last.op = "deleteReservation" /\ last.ret = "true"
     /\ findFlightById(last.oldFlightId)) =>
        /\ last.reservationId \notin DOMAIN reservations
        /\ isValidSeat(flights[last.oldFlightId], last.oldSeatNumber)
        /\ ~getSeatStatus(flights[last.oldFlightId], last.oldSeatNumber)
        /\ \A pay \in {Cash, <<"paypal", [email |-> "a@paypal.com"]>>} :
              LET o == addReservation(last.oldFlightId, last.oldSeatNumber,
                                      "PAS-1", pay[1], pay[2],
                                      FreshPaymentId, FreshReservationId)
              IN  /\ o.ret = FreshReservationId
                  /\ o.reservations[o.ret].flightId = last.oldFlightId
                  /\ o.reservations[o.ret].seatNumber = last.oldSeatNumber

\* a reservation of seat 1A on FL-1 was deleted while 1B stays booked
C2_Witness ==
    /\ last.op = "deleteReservation" /\ last.ret = "true"
    /\ last.oldFlightId = "FL-1" /\ last.oldSeatNumber = "1A"
    /\ ~flights["FL-1"].seatMap[0][0]
    /\ flights["FL-1"].seatMap[0][1]

\* C3: in every state reached by addReservation, updateReservation with a
\* changed copy of a stored reservation, and deleteReservation, no two stored
\* reservations have the same flight and seat (neither the same seat code
\* nor the same seat-map cell), and a cell of a flight's seat map is occupied
\* exactly when one stored reservation holds it.
C3_SeatUniqueness ==
    /\ \A id1, id2 \in DOMAIN reservations :
          (id1 # id2 /\ reservations[id1].flightId = reservations[id2].flightId)
            => /\ reservations[id1].seatNumber # reservations[id2].seatNumber
               /\ CellOf(reservations[id1].flightId, reservations[id1].seatNumber)
                    # CellOf(reservations[id2].flightId, reservations[id2].seatNumber)
    /\ \A id \in DOMAIN reservations :
          /\ findFlightById(reservations[id].flightId)
          /\ isValidSeat(flights[reservations[id].flightId],
                         reservations[id].seatNumber)
    /\ \A flightId \in DOMAIN flights :
          \A cell \in Cells(flightId) :
              flights[flightId].seatMap[cell[1]][cell[2]]
                <=> Cardinality(Holders(flightId, cell)) = 1

\* a reservation was moved to another seat while a second one is stored
C3_Witness ==
    /\ last.op = "updateReservation" /\ last.ret = "true"
    /\ last.oldFlightId = "FL-1" /\ last.flightId = "FL-1"
    /\ last.oldSeatNumber # last.seatNumber
    /\ Cardinality(DOMAIN reservations) = 2

\* the seat maps with cell `from` of flight oldFlightId free and cell `to` of
\* flight flightId occupied, every other cell as it is
Moved(oldFlightId, from, flightId, to) ==
    [f \in DOMAIN flights |->
        [flights[f] EXCEPT !.seatMap =
            [r \in DOMAIN flights[f].seatMap |->
                [c \in DOMAIN flights[f].seatMap[r] |->
                    IF f = flightId /\ <<r, c>> = to THEN TRUE
                    ELSE IF f = oldFlightId /\ <<r, c>> = from THEN FALSE
                    ELSE flights[f].seatMap[r][c]]]]]

\* the step is a call of updateReservation whose argument differs in flight
\* or seat from the stored reservation of the same id, if there is one
UpdateStep ==
    /\ last'.op = "updateReservation"
    /\ last'.reservationId \in DOMAIN reservations =>
          \/ reservations[last'.reservationId].flightId # last'.flightId
          \/ reservations[last'.reservationId].seatNumber # last'.seatNumber

\* the update is refused: it returns false and changes nothing
UpdateRefused == last'.ret = "false" /\ UNCHANGED repos

\* the update is done: r is stored, the old seat is free, the new one occupied
UpdateDone ==
    /\ last'.ret = "true"
    /\ reservations' =
          [reservations EXCEPT ![last'.reservationId] =
              [@ EXCEPT !.flightId = last'.flightId,
                        !.seatNumber = last'.seatNumber]]
    /\ flights' =
          Moved(reservations[last'.reservationId].flightId,
                CellOf(reservations[last'.reservationId].flightId,
                       reservations[last'.reservationId].seatNumber),
                last'.flightId, CellOf(last'.flightId, last'.seatNumber))
    /\ UNCHANGED <<users, aircrafts, payments>>

\* C5 (as the code has it): updateReservation(r), r differing in flight or
\* seat from the stored reservation: returns false and changes nothing when
\* the stored reservation is absent, the new flight is absent or the new seat
\* is occupied; raises invalid_argument and changes nothing when the new seat
\* code is no seat of the new flight; otherwise stores r, frees the old seat
\* on the old flight and occupies the new seat on the new flight.
C5_UpdateMovesSeat ==
    [][UpdateStep =>
         IF \/ last'.reservationId \notin DOMAIN reservations
            \/ last'.flightId \notin DOMAIN flights
         THEN UpdateRefused
         ELSE IF ~isValidSeat(flights[last'.flightId], last'.seatNumber)
         THEN last'.ret = INVALID_ARGUMENT /\ UNCHANGED repos
         ELSE IF getSeatStatus(flights[last'.flightId], last'.seatNumber)
         THEN UpdateRefused
         ELSE UpdateDone]_vars

\* C5 (as stated): updateReservation(r) returns false and changes nothing
\* when the stored reservation is absent, the new flight is absent or the new
\* seat is occupied; in every other case it stores r, frees the old seat and
\* occupies the new seat.
C5_UpdateAsStated ==
    [][UpdateStep =>
         IF \/ last'.reservationId \notin DOMAIN reservations
            \/ last'.flightId \notin DOMAIN flights
            \/ Occupied(last'.flightId, last'.seatNumber)
         THEN UpdateRefused
         ELSE /\ last'.ret = "true"
              /\ last'.reservationId \in DOMAIN reservations'
              /\ reservations'[last'.reservationId].flightId = last'.flightId
              /\ reservations'[last'.reservationId].seatNumber = last'.seatNumber]_vars

\* a reservation was moved from FL-1 to FL-2, leaving FL-1 free
C5_Witness ==
    /\ last.op = "updateReservation" /\ last.ret = "true"
    /\ last.oldFlightId = "FL-1" /\ last.flightId = "FL-2"
    /\ reservations[last.reservationId].flightId = "FL-2"
    /\ flights["FL-2"].seatMap[0][0]
    /\ ~flights["FL-1"].seatMap[0][0] /\ ~flights["FL-1"].seatMap[0][1]

-----------------------------------------------------------------------------
(* Error handling of addReservation, checked under SpecErrors *)

\* the step is a call of addReservation
AddStep == last'.op = "addReservation"

\* the passenger id of the call is unknown or names a user of another role
BadPassenger ==
    \/ last'.passengerId \notin DOMAIN users
    \/ users[last'.passengerId].role # "Passenger"

\* the flight id of the call is unknown
BadFlight == last'.flightId \notin DOMAIN flights

\* the seat code of the call is no seat of the (known) flight
BadSeat ==
    /\ ~BadFlight
    /\ ~isValidSeat(flights[last'.flightId], last'.seatNumber)

\* the payment of the call cannot be created: an unknown method, a PayPal
\* address outside paypal.com, a card with a two-digit CVV
BadPayment ==
    \/ last'.method \notin {"cash", "paypal", "credit"}
    \/ last'.method = "paypal" /\ last'.details["email"] = "a@pay.com"
    \/ last'.method = "credit" /\ Len(last'.details["cvv"]) # 3

\* C6: addReservation returns no reservation when the passenger id is
\* unknown, the user is not a Passenger or the flight id is unknown, and
\* raises the invalid-seat error when only the seat code is invalid for the
\* flight; in each case the reservations, the payments, every seat map and
\* the loyalty points are unchanged.
C6_AddFailsOnBadArguments ==
    [][(AddStep /\ (BadPassenger \/ BadFlight \/ BadSeat)) =>
          /\ last'.ret = IF BadPassenger \/ BadFlight THEN NULLOPT
                         ELSE INVALID_ARGUMENT
          /\ UNCHANGED repos]_vars

\* a booking manager's id was refused as passenger id for a free seat, while
\* a reservation is stored
C6_Witness ==
    /\ last.op = "addReservation" /\ last.ret = NULLOPT
    /\ last.passengerId = "BM-1" /\ last.flightId = "FL-1"
    /\ last.seatNumber = "1A" /\ last.method = "cash"
    /\ ~flights["FL-1"].seatMap[0][0]
    /\ Cardinality(DOMAIN reservations) = 1

\* C7: when the payment cannot be created, addReservation returns no
\* reservation (nullopt once passenger, flight and seat passed their checks),
\* and stores no payment and no reservation, leaves the seat free and the
\* loyalty points at their value.
C7_AddFailsOnBadPayment ==
    [][(AddStep /\ BadPayment) =>
          /\ last'.ret \notin ReservationIds
          /\ (~BadPassenger /\ ~BadFlight /\ ~BadSeat) => last'.ret = NULLOPT
          /\ UNCHANGED repos]_vars

\* a passenger's booking of free seat 1A was refused for its PayPal address
C7_Witness ==
    /\ last.op = "addReservation" /\ last.ret = NULLOPT
    /\ last.passengerId = "PAS-1" /\ last.flightId = "FL-1"
    /\ last.seatNumber = "1A" /\ last.method = "paypal"
    /\ ~flights["FL-1"].seatMap[0][0]
    /\ Cardinality(DOMAIN payments) = 1

-----------------------------------------------------------------------------
(* The controllers' booking operations, checked under SpecControllers *)

\* C4 (as stated): bookFlight called for an existing Passenger, an existing
\* flight, a free valid seat and a valid payment returns a reservation with
\* the passenger, flight and seat of the call, marks the seat occupied, and
\* leaves the repositories as createReservation leaves them for the same
\* passenger, flight and seat.
C4_BookFlightLikeCreateReservation ==
    [][(/\ last'.op = "bookFlight"
        /\ ~BadPassenger /\ ~BadFlight /\ ~BadSeat
        /\ ~getSeatStatus(flights[last'.flightId], last'.seatNumber)
        /\ ~BadPayment) =>
          LET o == createReservation("BM-1", last'.passengerId,
                                     last'.flightId, last'.seatNumber,
                                     last'.method, last'.details,
                                     NewPaymentId, NewReservationId)
              cell == CellOf(last'.flightId, last'.seatNumber)
          IN  /\ last'.ret \in ReservationIds
              /\ last'.ret \in DOMAIN reservations'
              /\ reservations'[last'.ret].passengerId = last'.passengerId
              /\ reservations'[last'.ret].flightId = last'.flightId
              /\ reservations'[last'.ret].seatNumber = last'.seatNumber
              /\ flights'[last'.flightId].seatMap[cell[1]][cell[2]]
              /\ users' = o.users /\ flights' = o.flights
              /\ reservations' = o.reservations /\ payments' = o.payments]_vars

-----------------------------------------------------------------------------
(* Loyalty points in the booking flow, checked under SpecLoyalty *)

\* balances a passenger can be constructed with: Passenger's constructors
\* accept every balance >= 0
StartPoints == {0, 1, 10 * Scale, 100 * Scale, 500 * Scale}

InitLoyalty ==
    /\ \E p \in StartPoints :
          users = [InitUsers EXCEPT !["PAS-1"].loyaltyPoints = p]
    /\ aircrafts = InitAircrafts
    /\ flights = InitFlights
    /\ crewMembers = InitCrewMembers
    /\ reservations = [id \in {} |-> 0]
    /\ payments = [id \in {} |-> 0]
    /\ last = NoCall
    /\ priceIn = NoPriceInput
    /\ priceOut = NoPrice
    /\ usernameToIdMap = UsernameMap(users)

\* bookings and cancellations of a passenger with any starting balance
NextLoyalty == AddReservation \/ DeleteReservation

SpecLoyalty == InitLoyalty /\ [][NextLoyalty]_vars

\* the step is an addReservation call that returned a reservation
AddSucceeds == last'.op = "addReservation" /\ last'.ret \in ReservationIds

\* C11: a successful addReservation stores a payment whose amount is
\* getSeatPrice(seat, p) for the balance p before the booking, and sets the
\* balance to p - min(p, 10% of the amount) when p > 0 and to
\* min(100, 10% of the amount) when p = 0.
C11_PaymentAndLoyalty ==
    [][AddSucceeds =>
         LET p      == users[last'.passengerId].loyaltyPoints
             amount == getSeatPrice(last'.seatNumber, p)
             paymentId == reservations'[last'.ret].paymentId
         IN  /\ paymentId \in DOMAIN payments' \ DOMAIN payments
             /\ payments'[paymentId].amount = amount
             /\ payments'[paymentId].passengerId = last'.passengerId
             /\ users'[last'.passengerId].loyaltyPoints =
                   IF p > 0 THEN p - Min(p, amount \div 10)
                   ELSE Min(100 * Scale, amount \div 10)]_vars

\* a passenger with 100 points booked seat 1A for 154 and keeps 84.6 points
C11_Witness ==
    /\ Booked("addReservation") /\ last.seatNumber = "1A"
    /\ payments[reservations[last.ret].paymentId].amount = 154 * Scale
    /\ users["PAS-1"].loyaltyPoints = (100 * Scale) - ((154 * Scale) \div 10)

\* C12 (as stated): whatever balance >= 0 the passenger starts with, after a
\* successful addReservation the stored balance is >= 0 and <= 100.
C12_LoyaltyWithinCap ==
    Booked("addReservation") =>
        /\ users[last.passengerId].loyaltyPoints >= 0
        /\ users[last.passengerId].loyaltyPoints <= 100 * Scale

-----------------------------------------------------------------------------
(* Seat decoding and seat state of one flight, checked under SpecSeat *)

\* a mutated setter: an undecodable seat is ignored instead of refused
setSeatStatusCall_silent(f, seatNumber, status) ==
    IF ~isValidSeat(f, seatNumber) THEN [ret |-> "void", flight |-> f]
    ELSE [ret |-> "void",
          flight |-> [f EXCEPT !.seatMap[getSeatIndices(f, seatNumber)[1]]
                                        [getSeatIndices(f, seatNumber)[2]] = status]]

\* FlightModel::setSeatStatus as a whole: what it returns or throws, and the
\* flight as it leaves it
setSeatStatusCall(f, seatNumber, status) ==
    LET seatIndices == getSeatIndices(f, seatNumber)
    IN  IF seatIndices[1] = -1 \/ seatIndices[2] = -1
        THEN [ret |-> INVALID_ARGUMENT, flight |-> f]
        ELSE [ret |-> "void",
              flight |-> [f EXCEPT !.seatMap[seatIndices[1]][seatIndices[2]] = status]]

\* FlightModel::getSeatStatus as a whole: the value it returns, or its throw
getSeatStatusCall(f, seatNumber) ==
    LET seatIndices == getSeatIndices(f, seatNumber)
    IN  IF seatIndices[1] = -1 \/ seatIndices[2] = -1 THEN INVALID_ARGUMENT
        ELSE IF f.seatMap[seatIndices[1]][seatIndices[2]] THEN "true"
        ELSE "false"

\* an aircraft record of the given geometry
Geometry(numOfRows, numOfRowSeats) ==
    [capacity |-> numOfRows * numOfRowSeats, numOfRowSeats |-> numOfRowSeats,
     numOfRows |-> numOfRows]

\* the seat grid FlightModel's constructor builds for an aircraft: all free
FreeGrid(aircraft) ==
    [r \in 0..(aircraft.numOfRows - 1) |->
        [c \in 0..(aircraft.numOfRowSeats - 1) |-> FALSE]]

\* one flight FL-1 on aircraft AC-1 of any geometry; the aircraft may have
\* left the aircraft repository since the flight was created
InitSeat ==
    /\ users = InitUsers
    /\ \E numOfRows \in 1..MaxSeatRows, numOfRowSeats \in 1..MAX_SEATS_PER_ROW,
          aircraftId \in {"AC-1", "AC-9"} :
          /\ aircrafts = [id \in {"AC-1"} |-> Geometry(numOfRows, numOfRowSeats)]
          /\ flights = [id \in {"FL-1"} |->
                          [aircraftId |-> aircraftId,
                           seatMap |-> FreeGrid(aircrafts["AC-1"])]]
    /\ crewMembers = InitCrewMembers
    /\ reservations = [id \in {} |-> 0]
    /\ payments = [id \in {} |-> 0]
    /\ last = NoCall
    /\ priceIn = NoPriceInput
    /\ priceOut = NoPrice
    /\ usernameToIdMap = UsernameMap(users)

\* the seat codes "{row}{chr('A'+col)}" of the aircraft AC-1
SeatCodes ==
    {SeatCode(row, col) : row \in 1..aircrafts["AC-1"].numOfRows,
                          col \in 0..(aircrafts["AC-1"].numOfRowSeats - 1)}

\* seat codes the calls are made with: the first and the last seat of the
\* last row, the codes next to the aircraft's bounds, and strings that are
\* no seat code
SeatCallInputs ==
    LET a == aircrafts["AC-1"]
    IN  {SeatCode(a.numOfRows, 0), SeatCode(a.numOfRows, a.numOfRowSeats - 1),
         SeatCode(0, 0), SeatCode(a.numOfRows + 1, 0)}
          \cup {SeatCode(1, col) : col \in {a.numOfRowSeats} \ {MAX_SEATS_PER_ROW}}
          \cup {"", "A", "1AA", "1a", "1@"}

SetSeatStatus ==
    \E seatNumber \in SeatCallInputs, status \in BOOLEAN :
        LET o == setSeatStatusCall(flights["FL-1"], seatNumber, status)
        IN  /\ flights' = [flights EXCEPT !["FL-1"] = o.flight]
            /\ last' = [NoCall EXCEPT !.op = "setSeatStatus", !.ret = o.ret,
                                      !.flightId = "FL-1",
                                      !.seatNumber = seatNumber,
                                      !.status = status]
            /\ UNCHANGED <<users, aircrafts, crewMembers, reservations, payments, priceIn, priceOut, usernameToIdMap>>

GetSeatStatus ==
    \E seatNumber \in SeatCallInputs :
        /\ last' = [NoCall EXCEPT !.op = "getSeatStatus",
                                  !.ret = getSeatStatusCall(flights["FL-1"], seatNumber),
                                  !.flightId = "FL-1",
                                  !.seatNumber = seatNumber]
        /\ UNCHANGED <<repos, priceIn, priceOut>>

IsValidSeat ==
    \E seatNumber \in SeatCallInputs :
        /\ last' = [NoCall EXCEPT !.op = "isValidSeat",
                                  !.ret = IF isValidSeat(flights["FL-1"], seatNumber)
                                          THEN "true" ELSE "false",
                                  !.flightId = "FL-1",
                                  !.seatNumber = seatNumber]
        /\ UNCHANGED <<repos, priceIn, priceOut>>

NextSeat == SetSeatStatus \/ GetSeatStatus \/ IsValidSeat

SpecSeat == InitSeat /\ [][NextSeat]_vars


\* the flight of SpecSeat and its aircraft
TheFlight == flights["FL-1"]

TheAircraft == aircrafts["AC-1"]

AircraftKnown == TheFlight.aircraftId \in DOMAIN aircrafts

\* C13: for every geometry, every row in 1..numRows and every column index c
\* in 0..seatsPerRow-1, the code "{row}{chr('A'+c)}" is accepted by
\* isValidSeat and decodes to cell (row-1, c); setSeatStatus on the code
\* followed by getSeatStatus on it returns the value set; two different codes
\* address two different cells.  (Decoding reads the aircraft only, so it is
\* checked for every code where no call has been made yet; the calls are
\* checked in every state.)
C13_SeatCodeRoundTrip ==
    AircraftKnown =>
      /\ last.op = "none" =>
            /\ \A row \in 1..TheAircraft.numOfRows,
                  col \in 0..(TheAircraft.numOfRowSeats - 1) :
                  /\ isValidSeat(TheFlight, SeatCode(row, col))
                  /\ getSeatIndices(TheFlight, SeatCode(row, col)) = <<row - 1, col>>
            /\ \A code1, code2 \in SeatCodes :
                  code1 # code2 =>
                      getSeatIndices(TheFlight, code1) # getSeatIndices(TheFlight, code2)
      /\ \A code \in SeatCodes \cap SeatCallInputs, status \in BOOLEAN :
            getSeatStatusCall(setSeatStatusCall(TheFlight, code, status).flight, code)
              = IF status THEN "true" ELSE "false"
      /\ (last.op = "setSeatStatus" /\ last.seatNumber \in SeatCodes) =>
            /\ last.ret = "void"
            /\ getSeatStatusCall(TheFlight, last.seatNumber)
                 = IF last.status THEN "true" ELSE "false"

\* the last seat of a 26-seat row was set occupied
C13_Witness ==
    /\ AircraftKnown /\ TheAircraft.numOfRowSeats = MAX_SEATS_PER_ROW
    /\ last.op = "setSeatStatus" /\ last.ret = "void" /\ last.status
    /\ last.seatNumber = SeatCode(TheAircraft.numOfRows, MAX_SEATS_PER_ROW - 1)
    /\ TheFlight.seatMap[TheAircraft.numOfRows - 1][MAX_SEATS_PER_ROW - 1]

\* strings that are no seat code of the aircraft, by kind: empty, no row
\* digits, row 0, a row above numRows, a column beyond the row, a lowercase
\* or non-letter column, more than one character after the digits
UndecodableCodes ==
    {"", "A", "Z", "0A", "00A", "1AA", "1A1", "1AB"}
      \cup {SeatCode(TheAircraft.numOfRows + 1, col) :
               col \in 0..(TheAircraft.numOfRowSeats - 1)}
      \cup {SeatCode(row, col) :
               row \in 1..TheAircraft.numOfRows,
               col \in TheAircraft.numOfRowSeats..(MAX_SEATS_PER_ROW - 1)}
      \cup {"1" \o c : c \in CharsOf(LowerCase) \cup CharsOf("-./:;<=>?@")}

\* C14: isValidSeat returns false for the empty string, a code without row
\* digits, row 0, a row above numRows, a column letter beyond
\* 'A'+seatsPerRow-1, a lowercase or non-letter column character, and a code
\* with more than one character after the digits.
C14_UndecodableIsInvalid ==
    /\ last.op = "none" =>
          \A code \in UndecodableCodes : ~isValidSeat(TheFlight, code)
    /\ (last.op = "isValidSeat"
        /\ last.seatNumber \in
              {"", "A", "1AA", "1a", "1@", SeatCode(0, 0),
               SeatCode(TheAircraft.numOfRows + 1, 0)}
                \cup {SeatCode(1, col) :
                        col \in {TheAircraft.numOfRowSeats} \ {MAX_SEATS_PER_ROW}}) =>
          last.ret = "false"

\* isValidSeat was asked about "1AA" on a stored aircraft
C14_Witness ==
    /\ AircraftKnown
    /\ last.op = "isValidSeat" /\ last.seatNumber = "1AA" /\ last.ret = "false"

\* the seat grid g2 differs from g1 at cell at most, where it holds status
OnlyCellSet(g1, g2, cell, status) ==
    /\ DOMAIN g2 = DOMAIN g1
    /\ \A r \in DOMAIN g1 :
          /\ DOMAIN g2[r] = DOMAIN g1[r]
          /\ \A c \in DOMAIN g1[r] :
                g2[r][c] = IF <<r, c>> = cell THEN status ELSE g1[r][c]

\* C15: isValidSeat returns false for every undecodable string and whenever
\* the flight's aircraft is not in the aircraft repository; getSeatStatus and
\* setSeatStatus raise the invalid-seat error in exactly the cases where
\* isValidSeat is false; a failed setSeatStatus leaves the grid unchanged and
\* a successful one changes only the addressed cell.
C15_SeatErrors ==
    \A code \in SeatCallInputs \cup {"1", "1-", "01A", "0A"} :
        /\ ~AircraftKnown => ~isValidSeat(TheFlight, code)
        /\ (getSeatStatusCall(TheFlight, code) = INVALID_ARGUMENT)
              <=> ~isValidSeat(TheFlight, code)
        /\ \A status \in BOOLEAN :
              LET o == setSeatStatusCall(TheFlight, code, status)
              IN  IF isValidSeat(TheFlight, code)
                  THEN /\ o.ret = "void"
                       /\ o.flight.aircraftId = TheFlight.aircraftId
                       /\ OnlyCellSet(TheFlight.seatMap, o.flight.seatMap,
                                      getSeatIndices(TheFlight, code), status)
                  ELSE o.ret = INVALID_ARGUMENT /\ o.flight = TheFlight

\* setSeatStatus refused "1AA" while a seat of the flight is occupied
C15_Witness ==
    /\ last.op = "setSeatStatus" /\ last.ret = INVALID_ARGUMENT
    /\ last.seatNumber = "1AA"
    /\ TheFlight.seatMap[TheAircraft.numOfRows - 1][0]

-----------------------------------------------------------------------------
(* Aircraft and flight administration *)

\* a DateTime is <<year, month, day, hour, minute>>
\* DateTime::operator<=
DateTime_le(a, b) ==
    IF a[1] # b[1] THEN a[1] < b[1]
    ELSE IF a[2] # b[2] THEN a[2] < b[2]
    ELSE IF a[3] # b[3] THEN a[3] < b[3]
    ELSE IF a[4] # b[4] THEN a[4] < b[4]
    ELSE a[5] < b[5]

\* DateTime::isValid
DateTime_isValid(t) ==
    LET year == t[1]  month == t[2]  day == t[3]  hour == t[4]  minute == t[5]
        isLeap == (year % 4 = 0 /\ year % 100 # 0) \/ (year % 400 = 0)
    IN  IF year < 0 \/ month < 1 \/ month > 12 \/ day < 1 \/ day > 31
           \/ hour < 0 \/ hour > 23 \/ minute < 0 \/ minute > 59
        THEN FALSE
        ELSE IF month \in {4, 6, 9, 11} /\ day > 30 THEN FALSE
        ELSE IF month = 2 /\ ((isLeap /\ day > 29) \/ (~isLeap /\ day > 28))
        THEN FALSE
        ELSE TRUE

\* a mutated check: every existing user is taken for an administrator
confirmAdmin_anyuser(adminId) == findUserById(adminId)

\* AdminController::confirmAdmin
confirmAdmin(adminId) == getUserRole(adminId) = "Admin"

\* a mutated constructor check: the divisibility of the capacity is not tested
AircraftModelThrows_nodiv(model, capacity, numOfRowSeats) ==
    \/ model = ""
    \/ capacity <= 0
    \/ numOfRowSeats <= 0
    \/ numOfRowSeats > MAX_SEATS_PER_ROW

\* AircraftModel::AircraftModel(model, capacity, numOfRowSeats) throws
AircraftModelThrows(model, capacity, numOfRowSeats) ==
    \/ model = ""
    \/ capacity <= 0
    \/ numOfRowSeats <= 0
    \/ numOfRowSeats > MAX_SEATS_PER_ROW
    \/ capacity % numOfRowSeats # 0

\* AircraftModel::setCapacity: the divisibility is tested against the
\* number of row seats the aircraft has at the time of the call
setCapacity(aircraft, capacity) ==
    IF capacity <= 0 THEN [throws |-> TRUE, aircraft |-> aircraft]
    ELSE IF capacity % aircraft.numOfRowSeats # 0
    THEN [throws |-> TRUE, aircraft |-> aircraft]
    ELSE [throws |-> FALSE,
          aircraft |-> [aircraft EXCEPT
                           !.capacity = capacity,
                           !.numOfRows = capacity \div aircraft.numOfRowSeats]]

\* AircraftModel::setNumOfRowSeats
setNumOfRowSeats(aircraft, numOfRowSeats) ==
    IF numOfRowSeats <= 0 THEN [throws |-> TRUE, aircraft |-> aircraft]
    ELSE IF numOfRowSeats > MAX_SEATS_PER_ROW
    THEN [throws |-> TRUE, aircraft |-> aircraft]
    ELSE IF aircraft.capacity % numOfRowSeats # 0
    THEN [throws |-> TRUE, aircraft |-> aircraft]
    ELSE [throws |-> FALSE,
          aircraft |-> [aircraft EXCEPT
                           !.numOfRowSeats = numOfRowSeats,
                           !.numOfRows = aircraft.capacity \div numOfRowSeats]]

\* the result of an administration call and the two repositories after it
FleetOutcome(ret, a, f) == [ret |-> ret, aircrafts |-> a, flights |-> f]

\* AircraftService::addAircraft; newId is the id the constructor draws
AircraftService_addAircraft(model, capacity, numOfRowSeats, newId) ==
    IF AircraftModelThrows(model, capacity, numOfRowSeats)
    THEN FleetOutcome(INVALID_ARGUMENT, aircrafts, flights)
    ELSE FleetOutcome(newId,
            Put(aircrafts, newId,
                [model |-> model, capacity |-> capacity,
                 numOfRowSeats |-> numOfRowSeats,
                 numOfRows |-> capacity \div numOfRowSeats]),
            flights)

\* AdminController::addAircraft
AdminController_addAircraft(adminId, model, capacity, numOfRowSeats, newId) ==
    IF ~confirmAdmin(adminId) THEN FleetOutcome(NULLOPT, aircrafts, flights)
    ELSE AircraftService_addAircraft(model, capacity, numOfRowSeats, newId)

\* AdminController::updateAircraft: the setters act on the aircraft object
\* the repository holds, one after the other, and a setter that throws
\* leaves what the setters before it have written
AdminController_updateAircraft(adminId, aircraftId, model, capacity, numOfRowSeats) ==
    IF ~confirmAdmin(adminId) THEN FleetOutcome("false", aircrafts, flights)
    ELSE IF aircraftId \notin DOMAIN aircrafts
    THEN FleetOutcome("false", aircrafts, flights)
    ELSE
      LET named == [aircrafts[aircraftId] EXCEPT !.model = model]
          sized == setCapacity(named, capacity)
          rowed == setNumOfRowSeats(sized.aircraft, numOfRowSeats)
      IN  IF sized.throws
          THEN FleetOutcome(INVALID_ARGUMENT, Put(aircrafts, aircraftId, named), flights)
          ELSE IF rowed.throws
          THEN FleetOutcome(INVALID_ARGUMENT,
                            Put(aircrafts, aircraftId, sized.aircraft), flights)
          ELSE FleetOutcome("true", Put(aircrafts, aircraftId, rowed.aircraft), flights)

\* FlightModelBuilder::build and the FlightModel constructor throw
FlightModelThrows(origin, destination, departureTime, arrivalTime, aircraftId, crewMemberIds) ==
    \/ origin = "" \/ destination = "" \/ aircraftId = ""
    \/ DateTime_le(arrivalTime, departureTime)
    \/ aircraftId \notin DOMAIN aircrafts
    \/ \E i \in 1..Len(crewMemberIds) : crewMemberIds[i] \notin DOMAIN crewMembers

\* FlightService::addFlight; newId is the id the constructor draws
FlightService_addFlight(origin, destination, departureTime, arrivalTime, aircraftId, crewMemberIds, newId) ==
    IF FlightModelThrows(origin, destination, departureTime, arrivalTime,
                         aircraftId, crewMemberIds)
    THEN FleetOutcome(INVALID_ARGUMENT, aircrafts, flights)
    ELSE FleetOutcome(newId, aircrafts,
            Put(flights, newId,
                [origin |-> origin, destination |-> destination,
                 departureTime |-> departureTime, arrivalTime |-> arrivalTime,
                 aircraftId |-> aircraftId, crewMemberIds |-> crewMemberIds,
                 seatMap |-> FreeGrid(aircrafts[aircraftId])]))

\* AdminController::addFlight
AdminController_addFlight(adminId, origin, destination, departureTime, arrivalTime, aircraftId, crewMemberIds, newId) ==
    IF ~confirmAdmin(adminId) THEN FleetOutcome(NULLOPT, aircrafts, flights)
    ELSE FlightService_addFlight(origin, destination, departureTime,
                                 arrivalTime, aircraftId, crewMemberIds, newId)

\* FlightService::updateFlight(flightId, origin, destination, departureTime,
\* arrivalTime, aircraftId): the stored flight keeps its seat map
FlightService_updateFlight(flightId, origin, destination, departureTime, arrivalTime, aircraftId) ==
    IF ~findFlightById(flightId) THEN FleetOutcome("false", aircrafts, flights)
    ELSE IF origin # "" /\ destination # "" /\ origin = destination
    THEN FleetOutcome("false", aircrafts, flights)
    ELSE IF \/ ~DateTime_isValid(departureTime)
            \/ ~DateTime_isValid(arrivalTime)
            \/ DateTime_le(arrivalTime, departureTime)
    THEN FleetOutcome("false", aircrafts, flights)
    ELSE IF aircraftId # "" /\ aircraftId \notin DOMAIN aircrafts
    THEN FleetOutcome("false", aircrafts, flights)
    ELSE FleetOutcome("true", aircrafts,
            [flights EXCEPT ![flightId].origin = origin,
                            ![flightId].destination = destination,
                            ![flightId].departureTime = departureTime,
                            ![flightId].arrivalTime = arrivalTime,
                            ![flightId].aircraftId = aircraftId])

\* AdminController::updateFlight(adminId, flightId, ...)
AdminController_updateFlight(adminId, flightId, origin, destination, departureTime, arrivalTime, aircraftId) ==
    IF ~confirmAdmin(adminId) THEN FleetOutcome("false", aircrafts, flights)
    ELSE FlightService_updateFlight(flightId, origin, destination,
                                    departureTime, arrivalTime, aircraftId)

\* the ids drawn for aircraft and flights come from these pools
AircraftPool == {"AC-1", "AC-2"}

FlightPool == {"FL-1"}

\* the first id of a pool that is free, NoId when the pool is used up
FirstOf(pool, repo) ==
    LET free == pool \ DOMAIN repo
    IN  IF free = {} THEN NoId
        ELSE CHOOSE id \in free : \A other \in free :
                 stoi(SubSeq(id, 4, Len(id))).value <= stoi(SubSeq(other, 4, Len(other))).value

\* (adminId, model, capacity, numOfRowSeats) of the addAircraft calls: the
\* accepted geometries, one rejected value of each argument, and a caller
\* who is no admin
AddAircraftInputs ==
    {<<"ADM-1", "A320", capacity, numOfRowSeats>> :
        <<capacity, numOfRowSeats>> \in
            {<<2, 1>>, <<2, 2>>, <<26, 26>>, <<100, 7>>, <<0, 1>>, <<2, 0>>, <<27, 27>>}}
      \cup {<<"ADM-1", "", 2, 2>>, <<"PAS-1", "A320", 2, 2>>}

\* (adminId, aircraftId, model, capacity, numOfRowSeats) of the
\* updateAircraft calls
UpdateAircraftInputs ==
    {<<"ADM-1", "AC-1", "A320", capacity, numOfRowSeats>> :
        <<capacity, numOfRowSeats>> \in
            {<<2, 1>>, <<4, 2>>, <<3, 2>>, <<0, 1>>, <<2, 0>>, <<27, 27>>}}
      \cup {<<"ADM-1", "AC-9", "A320", 4, 2>>, <<"PAS-1", "AC-1", "A320", 4, 2>>}

Noon == <<2025, 1, 1, 12, 0>>

Evening == <<2025, 1, 1, 18, 30>>

YearBefore == <<2024, 12, 31, 23, 59>>

NoDate == <<2025, 2, 30, 0, 0>>

\* (adminId, origin, destination, departureTime, arrivalTime, aircraftId,
\* crewMemberIds) of the addFlight calls: an accepted flight on each
\* aircraft, and calls that differ from it in one argument
AddFlightInputs ==
    {<<"ADM-1", "CAI", "DXB", Noon, Evening, aircraftId, <<>>>> :
        aircraftId \in {"AC-1", "AC-2", "AC-9", ""}}
      \cup {<<"ADM-1", "CAI", "DXB", Noon, arrivalTime, "AC-1", <<>>>> :
                arrivalTime \in {Noon, YearBefore}}
      \cup {<<"ADM-1", "CAI", "DXB", Evening, Noon, "AC-1", <<>>>>,
            <<"ADM-1", "", "DXB", Noon, Evening, "AC-1", <<>>>>,
            <<"ADM-1", "CAI", "DXB", Noon, Evening, "AC-1", <<"CM-9">>>>,
            <<"PAS-1", "CAI", "DXB", Noon, Evening, "AC-1", <<>>>>}

\* (adminId, flightId, origin, destination, departureTime, arrivalTime,
\* aircraftId) of the updateFlight calls
UpdateFlightInputs ==
    {<<"ADM-1", "FL-1", "CAI", "DXB", Noon, Evening, aircraftId>> :
        aircraftId \in {"AC-1", "AC-2", "AC-9", ""}}
      \cup {<<"ADM-1", "FL-1", "CAI", "DXB", Noon, arrivalTime, "AC-1">> :
                arrivalTime \in {Noon, YearBefore, NoDate}}
      \cup {<<"ADM-1", "FL-1", "CAI", "DXB", Evening, Noon, "AC-1">>,
            <<"ADM-1", "FL-1", "CAI", "CAI", Noon, Evening, "AC-1">>,
            <<"ADM-1", "FL-9", "CAI", "DXB", Noon, Evening, "AC-1">>,
            <<"PAS-1", "FL-1", "CAI", "DXB", Noon, Evening, "AC-1">>}

\* the repositories before any aircraft or flight exists
InitFleet ==
    /\ users = [id \in {"ADM-1", "PAS-1"} |->
                   IF id = "ADM-1"
                   THEN [role |-> "Admin", loyaltyPoints |-> 0]
                   ELSE [role |-> "Passenger", loyaltyPoints |-> 0]]
    /\ aircrafts = [id \in {} |-> 0]
    /\ flights = [id \in {} |-> 0]
    /\ crewMembers = InitCrewMembers
    /\ reservations = [id \in {} |-> 0]
    /\ payments = [id \in {} |-> 0]
    /\ last = NoCall
    /\ priceIn = NoPriceInput
    /\ priceOut = NoPrice
    /\ usernameToIdMap = UsernameMap(users)

\* the repositories and the call record after an administration call
ApplyFleet(o, op, caller, args) ==
    /\ NoId \notin DOMAIN o.aircrafts
    /\ NoId \notin DOMAIN o.flights
    /\ aircrafts' = o.aircrafts
    /\ flights' = o.flights
    /\ last' = [NoCall EXCEPT !.op = op, !.ret = o.ret, !.caller = caller,
                              !.details = args]
    /\ UNCHANGED <<users, crewMembers, reservations, payments, priceIn, priceOut, usernameToIdMap>>

AddAircraft ==
    \E in \in AddAircraftInputs :
        LET newId == FirstOf(AircraftPool, aircrafts)
        IN  ApplyFleet(AdminController_addAircraft(in[1], in[2], in[3], in[4], newId),
                       "addAircraft", in[1],
                       [model |-> in[2], capacity |-> in[3], numOfRowSeats |-> in[4]])

UpdateAircraft ==
    \E in \in UpdateAircraftInputs :
        ApplyFleet(AdminController_updateAircraft(in[1], in[2], in[3], in[4], in[5]),
                   "updateAircraft", in[1],
                   [aircraftId |-> in[2], model |-> in[3],
                    capacity |-> in[4], numOfRowSeats |-> in[5]])

AddFlight ==
    \E in \in AddFlightInputs :
        LET newId == FirstOf(FlightPool, flights)
        IN  ApplyFleet(AdminController_addFlight(in[1], in[2], in[3], in[4], in[5],
                                                 in[6], in[7], newId),
                       "addFlight", in[1],
                       [origin |-> in[2], destination |-> in[3],
                        departureTime |-> in[4], arrivalTime |-> in[5],
                        aircraftId |-> in[6], crewMemberIds |-> in[7]])

UpdateFlight ==
    \E in \in UpdateFlightInputs :
        ApplyFleet(AdminController_updateFlight(in[1], in[2], in[3], in[4], in[5],
                                                in[6], in[7]),
                   "updateFlight", in[1],
                   [flightId |-> in[2], origin |-> in[3], destination |-> in[4],
                    departureTime |-> in[5], arrivalTime |-> in[6],
                    aircraftId |-> in[7]])

NextFleet == AddAircraft \/ UpdateAircraft \/ AddFlight \/ UpdateFlight

SpecFleet == InitFleet /\ [][NextFleet]_vars

-----------------------------------------------------------------------------
(* Claims on the aircraft repository *)

\* the constraints AircraftModel places on an aircraft
WellFormed(a) ==
    /\ a.capacity > 0
    /\ 1 <= a.numOfRowSeats
    /\ a.numOfRowSeats <= 26
    /\ a.capacity % a.numOfRowSeats = 0
    /\ a.numOfRows = a.capacity \div a.numOfRowSeats

\* an administrator's addAircraft call whose capacity is no multiple of its seats per row
IndivisibleAdd ==
    /\ last'.op = "addAircraft"
    /\ confirmAdmin(last'.caller)
    /\ last'.details.numOfRowSeats > 0
    /\ last'.details.capacity % last'.details.numOfRowSeats # 0

\* C18: after every addAircraft and updateAircraft call, the rejected ones
\* included, every aircraft in the repository has capacity > 0,
\* 1 <= seatsPerRow <= 26, a capacity divisible by seatsPerRow and
\* numRows = capacity / seatsPerRow; an addAircraft call with a capacity not
\* divisible by seatsPerRow is rejected and adds no aircraft
C18_AircraftWellFormed ==
    [][/\ \A id \in DOMAIN aircrafts' : WellFormed(aircrafts'[id])
       /\ IndivisibleAdd =>
            /\ last'.ret = INVALID_ARGUMENT
            /\ aircrafts' = aircrafts]_vars

\* capacity 100 with 7 seats per row has just been rejected, while AC-1
\* carries the capacity a rejected updateAircraft call left on it
C18_Witness ==
    /\ last.op = "addAircraft"
    /\ last.details.capacity = 100
    /\ last.details.numOfRowSeats = 7
    /\ last.ret = INVALID_ARGUMENT
    /\ "AC-1" \in DOMAIN aircrafts
    /\ aircrafts["AC-1"].capacity = 3
    /\ aircrafts["AC-1"].numOfRows = 3

-----------------------------------------------------------------------------
(* Claims on the flight repository *)

\* the seat map of flight f has exactly the cells of aircraft a
GridOf(f, a) ==
    /\ DOMAIN f.seatMap = 0..(a.numOfRows - 1)
    /\ \A r \in DOMAIN f.seatMap : DOMAIN f.seatMap[r] = 0..(a.numOfRowSeats - 1)

\* the seat code addresses a cell that the seat map of flight f has
InsideGrid(f, seatNumber) ==
    LET seatIndices == getSeatIndices(f, seatNumber)
    IN  /\ seatIndices[1] \in DOMAIN f.seatMap
        /\ seatIndices[2] \in DOMAIN f.seatMap[seatIndices[1]]

\* the seat codes of every geometry an aircraft of the model can have
AllSeatCodes ==
    {SeatCode(row, col) : row \in 1..4, col \in 0..(MAX_SEATS_PER_ROW - 1)}

\* C16: every flight in the flight repository has a seat grid of exactly
\* numRows x seatsPerRow cells of the aircraft its aircraftId names, all free
\* when the flight is created, in every state reachable through flight and
\* aircraft add and update operations, so that every seat code isValidSeat
\* accepts addresses a cell inside the grid
C16_GridMatchesAircraft ==
    \A id \in DOMAIN flights :
        LET f == flights[id]
        IN  /\ f.aircraftId \in DOMAIN aircrafts
            /\ GridOf(f, aircrafts[f.aircraftId])
            /\ (last.op = "addFlight" /\ last.ret = id) =>
                   \A r \in DOMAIN f.seatMap : \A c \in DOMAIN f.seatMap[r] :
                       ~f.seatMap[r][c]
            /\ \A seatNumber \in AllSeatCodes :
                   isValidSeat(f, seatNumber) => InsideGrid(f, seatNumber)

\* the position of a DateTime on the time line, in minutes of a calendar
\* whose months all have 31 days
Chrono(t) == (((t[1] * 12 + t[2]) * 31 + t[3]) * 24 + t[4]) * 60 + t[5]

\* an administrator's addFlight or updateFlight call has just returned
FlightStep ==
    /\ last'.op \in {"addFlight", "updateFlight"}
    /\ confirmAdmin(last'.caller)

FlightAccepted ==
    \/ last'.op = "addFlight" /\ last'.ret \in FlightPool
    \/ last'.op = "updateFlight" /\ last'.ret = "true"

\* C17: every flight accepted by FlightService::addFlight or
\* FlightService::updateFlight has an arrival time strictly later than its
\* departure time; a request whose arrival time equals or precedes the
\* departure time is rejected and leaves the flight repository unchanged
C17_ArrivalAfterDeparture ==
    [][FlightStep =>
          LET departureTime == last'.details.departureTime
              arrivalTime   == last'.details.arrivalTime
          IN  /\ FlightAccepted => Chrono(arrivalTime) > Chrono(departureTime)
              /\ Chrono(arrivalTime) <= Chrono(departureTime) =>
                    /\ ~FlightAccepted
                    /\ flights' = flights]_vars

-----------------------------------------------------------------------------
(* JSON serialisation of the model objects *)

\* the result of a constructor taking JSON: it throws, or it builds an object
Thrown == [throws |-> TRUE, object |-> EmptyJSON]

Built(object) == [throws |-> FALSE, object |-> object]

\* std::string::substr(pos, len) and substr(pos)
substr(s, pos, len) == SubSeq(s, pos + 1, Min(pos + len, Len(s)))

substrFrom(s, pos) == SubSeq(s, pos + 1, Len(s))

\* std::string::find(c, pos)
findFrom(s, c, pos) ==
    LET hits == {i \in pos..(Len(s) - 1) : CharAt(s, i) = c}
    IN  IF hits = {} THEN npos
        ELSE CHOOSE i \in hits : \A j \in hits : i <= j

\* erase(0, find_first_not_of(" \t")) and erase(find_last_not_of(" \t") + 1)
RECURSIVE trimLeft(_)
trimLeft(s) ==
    IF Len(s) > 0 /\ CharAt(s, 0) \in {" ", "\t"}
    THEN trimLeft(substrFrom(s, 1)) ELSE s

RECURSIVE trimRight(_)
trimRight(s) ==
    IF Len(s) > 0 /\ CharAt(s, Len(s) - 1) \in {" ", "\t"}
    THEN trimRight(substr(s, 0, Len(s) - 1)) ELSE s

\* (n < 10 ? "0" : "") + std::to_string(n)
TwoDigits(n) == (IF n < 10 THEN "0" ELSE "") \o to_string(n)

\* DateTime::toString
DateTime_toString(t) ==
    to_string(t[1]) \o "-" \o TwoDigits(t[2]) \o "-" \o TwoDigits(t[3])
        \o " " \o TwoDigits(t[4]) \o ":" \o TwoDigits(t[5])

\* DateTime::parseDateOnly: <<year, month, day>>, or <<>> when it throws
parseDateOnly(dateStr) ==
    LET firstDash  == find(dateStr, "-")
        secondDash == findFrom(dateStr, "-", firstDash + 1)
    IN  IF firstDash = npos \/ secondDash = npos THEN <<>>
        ELSE
          LET year  == stoi(substr(dateStr, 0, firstDash))
              month == stoi(substr(dateStr, firstDash + 1, secondDash - firstDash - 1))
              day   == stoi(substrFrom(dateStr, secondDash + 1))
          IN  IF year.throws \/ month.throws \/ day.throws THEN <<>>
              ELSE <<year.value, month.value, day.value>>

\* DateTime::parseTimeOnly: <<hour, minute>>, or <<>> when it throws
parseTimeOnly(timeStr) ==
    LET colonPos == find(timeStr, ":")
    IN  IF colonPos = npos THEN <<>>
        ELSE
          LET hour   == stoi(substr(timeStr, 0, colonPos))
              minute == stoi(substrFrom(timeStr, colonPos + 1))
          IN  IF hour.throws \/ minute.throws THEN <<>>
              ELSE <<hour.value, minute.value>>

\* DateTime::DateTime(dateTimeStr)
DateTime_fromString(dateTimeStr) ==
    LET trimmed  == trimRight(trimLeft(dateTimeStr))
        spacePos == find(trimmed, " ")
        datePart == IF spacePos = npos THEN parseDateOnly(trimmed)
                    ELSE parseDateOnly(substr(trimmed, 0, spacePos))
        timePart == IF spacePos = npos THEN <<0, 0>>
                    ELSE parseTimeOnly(substrFrom(trimmed, spacePos + 1))
    IN  IF datePart = <<>> \/ timePart = <<>> THEN Thrown
        ELSE IF ~DateTime_isValid(datePart \o timePart) THEN Thrown
        ELSE Built(datePart \o timePart)

\* AircraftModel::to_json
AircraftModel_to_json(id, a) ==
    [id |-> id, model |-> a.model, capacity |-> a.capacity,
     numOfRowSeats |-> a.numOfRowSeats]

\* AircraftModel::AircraftModel(json)
AircraftModel_from_json(json) ==
    IF ~({"id", "model", "capacity", "numOfRowSeats"} \subseteq DOMAIN json)
    THEN Thrown
    ELSE IF substr(json.id, 0, 3) # "AC-" THEN Thrown
    ELSE IF json.model = "" \/ json.capacity <= 0 \/ json.numOfRowSeats <= 0
    THEN Thrown
    ELSE IF json.numOfRowSeats > MAX_SEATS_PER_ROW THEN Thrown
    ELSE IF json.capacity % json.numOfRowSeats # 0 THEN Thrown
    ELSE Built([model |-> json.model, capacity |-> json.capacity,
                numOfRowSeats |-> json.numOfRowSeats,
                numOfRows |-> json.capacity \div json.numOfRowSeats])

\* CrewMemberModel::to_json
CrewMemberModel_to_json(id, c) ==
    [id |-> id, name |-> c.name,
     role |-> IF c.role = "Pilot" THEN "Pilot" ELSE "Flight Attendant"]

\* CrewMemberModel::CrewMemberModel(json)
CrewMemberModel_from_json(json) ==
    IF ~({"id", "name", "role"} \subseteq DOMAIN json) THEN Thrown
    ELSE IF substr(json.id, 0, 3) # "CM-" THEN Thrown
    ELSE IF json.name = "" THEN Thrown
    ELSE IF json.role = "Pilot"
    THEN Built([name |-> json.name, role |-> "Pilot"])
    ELSE IF json.role = "Flight Attendant"
    THEN Built([name |-> json.name, role |-> "FlightAttendant"])
    ELSE Thrown

\* Passenger::to_json, BookingManager::to_json and Admin::to_json
UserModel_to_json(id, u) ==
    IF u.role = "Passenger"
    THEN [id |-> id, username |-> u.username, password |-> u.password,
          role |-> "Passenger", loyaltyPoints |-> u.loyaltyPoints]
    ELSE [id |-> id, username |-> u.username, password |-> u.password,
          role |-> u.role]

\* UserFactory::createUser(json) with the constructors of UserModel,
\* Passenger, BookingManager and Admin; the model's records carry a balance
\* of 0 for the users who are no passengers
UserModel_from_json(json) ==
    IF json.role \notin {"Passenger", "BookingManager", "Admin"} THEN Thrown
    ELSE IF ~({"id", "username", "password", "role"} \subseteq DOMAIN json)
    THEN Thrown
    ELSE IF json.role = "Passenger" THEN
        IF "loyaltyPoints" \notin DOMAIN json THEN Thrown
        ELSE IF json.loyaltyPoints < 0 THEN Thrown
        ELSE IF substr(json.id, 0, 4) # "PAS-" THEN Thrown
        ELSE Built([role |-> "Passenger", loyaltyPoints |-> json.loyaltyPoints,
                    username |-> json.username, password |-> json.password])
    ELSE IF json.role = "BookingManager" /\ substr(json.id, 0, 3) # "BM-"
    THEN Thrown
    ELSE IF json.role = "Admin" /\ substr(json.id, 0, 4) # "ADM-" THEN Thrown
    ELSE Built([role |-> json.role, loyaltyPoints |-> 0,
                username |-> json.username, password |-> json.password])

\* FlightModel::to_json
FlightModel_to_json(id, f) ==
    [id |-> id, origin |-> f.origin, destination |-> f.destination,
     departureTime |-> DateTime_toString(f.departureTime),
     arrivalTime |-> DateTime_toString(f.arrivalTime),
     aircraftId |-> f.aircraftId, crewMemberIds |-> f.crewMemberIds,
     seatMap |-> f.seatMap]

\* FlightModel::FlightModel(json)
FlightModel_from_json(json) ==
    LET departureTime == DateTime_fromString(json.departureTime)
        arrivalTime   == DateTime_fromString(json.arrivalTime)
        rowSize == Cardinality(DOMAIN json.seatMap)
        colSize == Cardinality(DOMAIN json.seatMap[0])
    IN  IF ~({"id", "origin", "destination", "departureTime", "arrivalTime",
              "aircraftId", "crewMemberIds"} \subseteq DOMAIN json)
        THEN Thrown
        ELSE IF substr(json.id, 0, 3) # "FL-" THEN Thrown
        ELSE IF json.origin = "" \/ json.destination = "" THEN Thrown
        ELSE IF departureTime.throws \/ arrivalTime.throws THEN Thrown
        ELSE IF DateTime_le(arrivalTime.object, departureTime.object) THEN Thrown
        ELSE IF json.aircraftId \notin DOMAIN aircrafts THEN Thrown
        ELSE IF \E i \in 1..Len(json.crewMemberIds) :
                    json.crewMemberIds[i] \notin DOMAIN crewMembers
        THEN Thrown
        ELSE IF \/ colSize # aircrafts[json.aircraftId].numOfRowSeats
                \/ rowSize # aircrafts[json.aircraftId].numOfRows
        THEN Thrown
        ELSE Built([origin |-> json.origin, destination |-> json.destination,
                    departureTime |-> departureTime.object,
                    arrivalTime |-> arrivalTime.object,
                    aircraftId |-> json.aircraftId,
                    crewMemberIds |-> json.crewMemberIds,
                    seatMap |-> json.seatMap])

\* ReservationModel::to_json
ReservationModel_to_json(id, r) ==
    [id |-> id, flightId |-> r.flightId, passengerId |-> r.passengerId,
     seatNumber |-> r.seatNumber,
     status |-> IF r.status = "CONFIRMED" THEN "CONFIRMED" ELSE "CANCELLED",
     paymentId |-> r.paymentId]

\* ReservationModel::ReservationModel(json), which also writes the seat of
\* the reservation into the stored flight
ReservationModel_from_json(json) ==
    IF ~({"id", "flightId", "passengerId", "seatNumber", "status", "paymentId"}
            \subseteq DOMAIN json)
    THEN Thrown @@ [flights |-> flights]
    ELSE IF substr(json.id, 0, 4) # "RES-" THEN Thrown @@ [flights |-> flights]
    ELSE IF ~findFlightById(json.flightId) THEN Thrown @@ [flights |-> flights]
    ELSE IF ~findUserById(json.passengerId) THEN Thrown @@ [flights |-> flights]
    ELSE IF json.status \notin {"CONFIRMED", "CANCELLED"}
    THEN Thrown @@ [flights |-> flights]
    ELSE IF ~isValidSeat(flights[json.flightId], json.seatNumber)
    THEN Thrown @@ [flights |-> flights]
    ELSE
      LET written == setSeatStatus(flights, json.flightId, json.seatNumber,
                                   json.status = "CONFIRMED")
      IN  IF ~findPaymentById(json.paymentId)
          THEN Thrown @@ [flights |-> written]
          ELSE Built([flightId |-> json.flightId,
                      passengerId |-> json.passengerId,
                      seatNumber |-> json.seatNumber, status |-> json.status,
                      paymentId |-> json.paymentId])
                 @@ [flights |-> written]

\* PaymentStrategy::getDetails of the strategy the factory builds
getDetails(type, details) ==
    IF type = "paypal" THEN [email |-> details["email"]]
    ELSE IF type = "credit"
    THEN [cardNumber |-> details["cardNumber"],
          expirationDate |-> details["expirationDate"], cvv |-> details["cvv"]]
    ELSE EmptyJSON

\* PaymentModel::to_json
PaymentModel_to_json(id, p) ==
    [id |-> id, passengerId |-> p.passengerId, amount |-> p.amount,
     method |-> p.method, paymentDate |-> DateTime_toString(p.paymentDate),
     details |-> p.details,
     status |-> IF p.status = "COMPLETED" THEN "COMPLETED"
                ELSE IF p.status = "REFUNDED" THEN "REFUNDED"
                ELSE "UNKNOWN"]

\* PaymentModel::PaymentModel(json)
PaymentModel_from_json(json) ==
    LET paymentDate == DateTime_fromString(json.paymentDate)
    IN  IF ~({"id", "passengerId", "amount", "method", "paymentDate", "status"}
                \subseteq DOMAIN json)
        THEN Thrown
        ELSE IF substr(json.id, 0, 4) # "PAY-" THEN Thrown
        ELSE IF ~findUserById(json.passengerId) THEN Thrown
        ELSE IF json.amount <= 0 THEN Thrown
        ELSE IF createPaymentStrategy(json.method, json.details) = "throws"
        THEN Thrown
        ELSE IF paymentDate.throws THEN Thrown
        ELSE IF json.status \notin {"COMPLETED", "REFUNDED"} THEN Thrown
        ELSE Built([passengerId |-> json.passengerId, amount |-> json.amount,
                    method |-> json.method,
                    details |-> getDetails(json.method, json.details),
                    paymentDate |-> paymentDate.object,
                    status |-> json.status])

\* PaymentService::processPayment and PaymentModel::processPayment; the
\* message the payment strategy returns is represented by "processed"
PaymentService_processPayment(paymentId) ==
    IF ~findPaymentById(paymentId)
    THEN [ret |-> "Payment not found", payments |-> payments]
    ELSE [ret |-> "processed",
          payments |-> [payments EXCEPT ![paymentId].status = "COMPLETED"]]

\* a mutated refund: the payment is marked completed
PaymentService_refundPayment_completed(paymentId) ==
    IF ~findPaymentById(paymentId)
    THEN [ret |-> "Payment not found", payments |-> payments]
    ELSE [ret |-> "refunded",
          payments |-> [payments EXCEPT ![paymentId].status = "COMPLETED"]]

\* PaymentService::refundPayment and PaymentModel::refundPayment; the
\* message the payment strategy returns is represented by "refunded"
PaymentService_refundPayment(paymentId) ==
    IF ~findPaymentById(paymentId)
    THEN [ret |-> "Payment not found", payments |-> payments]
    ELSE [ret |-> "refunded",
          payments |-> [payments EXCEPT ![paymentId].status = "REFUNDED"]]

\* <<payment method, payment details>> of the strategies the factory builds
StrategyInputs ==
    { Cash,
      <<"paypal", [email |-> "a@paypal.com"]>>,
      <<"credit", [cardNumber |-> "4000111122223333",
                   expirationDate |-> "12/30", cvv |-> "123"]>> }

\* the repositories after an administrator has added an aircraft, two crew
\* members and a flight, and the passenger has booked seat 1A of the flight:
\* the payment of the booking is pending
InitJson ==
    /\ \E p \in {0, 15 * Scale} :
          users = [id \in {"PAS-1", "BM-1", "ADM-1"} |->
                     [role |-> IF id = "PAS-1" THEN "Passenger"
                               ELSE IF id = "BM-1" THEN "BookingManager"
                               ELSE "Admin",
                      loyaltyPoints |-> IF id = "PAS-1" THEN p ELSE 0,
                      username |-> id, password |-> "secret"]]
    /\ \E a \in {Geometry(1, 2), Geometry(2, 1)} :
          aircrafts = [id \in {"AC-1"} |-> a @@ [model |-> "A320"]]
    /\ crewMembers = [id \in {"CM-1", "CM-2"} |->
                        IF id = "CM-1" THEN [name |-> "Amr", role |-> "Pilot"]
                        ELSE [name |-> "Mona", role |-> "FlightAttendant"]]
    /\ \E crewMemberIds \in {<<>>, <<"CM-1", "CM-2">>} :
          flights = [id \in {"FL-1"} |->
                       [origin |-> "CAI", destination |-> "DXB",
                        departureTime |-> Noon, arrivalTime |-> Evening,
                        aircraftId |-> "AC-1", crewMemberIds |-> crewMemberIds,
                        seatMap |-> [FreeGrid(aircrafts["AC-1"]) EXCEPT ![0][0] = TRUE]]]
    /\ reservations = [id \in {"RES-1"} |->
                         [flightId |-> "FL-1", passengerId |-> "PAS-1",
                          seatNumber |-> "1A", status |-> "CONFIRMED",
                          paymentId |-> "PAY-1"]]
    /\ \E strategy \in StrategyInputs, paymentDate \in {Noon, YearBefore} :
          payments = [id \in {"PAY-1"} |->
                        [passengerId |-> "PAS-1", amount |-> 154 * Scale,
                         method |-> strategy[1],
                         details |-> getDetails(strategy[1], strategy[2]),
                         paymentDate |-> paymentDate, status |-> "PENDING"]]
    /\ last = NoCall
    /\ priceIn = NoPriceInput
    /\ priceOut = NoPrice
    /\ usernameToIdMap = UsernameMap(users)

\* the record of writing a stored object with to_json and constructing an
\* object from the JSON written
Reloaded(op, id, r) ==
    [NoCall EXCEPT !.op = op,
                   !.ret = IF r.throws THEN INVALID_ARGUMENT ELSE "ok",
                   !.details = [id |-> id, object |-> r.object]]

ProcessPayment ==
    \E paymentId \in {"PAY-1", "PAY-9"} :
        LET o == PaymentService_processPayment(paymentId)
        IN  /\ payments' = o.payments
            /\ last' = [NoCall EXCEPT !.op = "processPayment", !.ret = o.ret,
                                      !.details = [paymentId |-> paymentId]]
            /\ UNCHANGED <<users, aircrafts, flights, crewMembers, reservations, priceIn, priceOut, usernameToIdMap>>

RefundPayment ==
    \E paymentId \in {"PAY-1", "PAY-9"} :
        LET o == PaymentService_refundPayment(paymentId)
        IN  /\ payments' = o.payments
            /\ last' = [NoCall EXCEPT !.op = "refundPayment", !.ret = o.ret,
                                      !.details = [paymentId |-> paymentId]]
            /\ UNCHANGED <<users, aircrafts, flights, crewMembers, reservations, priceIn, priceOut, usernameToIdMap>>

ReloadUser ==
    \E id \in DOMAIN users :
        /\ last' = Reloaded("reloadUser", id,
                            UserModel_from_json(UserModel_to_json(id, users[id])))
        /\ UNCHANGED <<repos, priceIn, priceOut>>

ReloadAircraft ==
    \E id \in DOMAIN aircrafts :
        /\ last' = Reloaded("reloadAircraft", id,
                            AircraftModel_from_json(AircraftModel_to_json(id, aircrafts[id])))
        /\ UNCHANGED <<repos, priceIn, priceOut>>

ReloadCrewMember ==
    \E id \in DOMAIN crewMembers :
        /\ last' = Reloaded("reloadCrewMember", id,
                            CrewMemberModel_from_json(CrewMemberModel_to_json(id, crewMembers[id])))
        /\ UNCHANGED <<repos, priceIn, priceOut>>

ReloadFlight ==
    \E id \in DOMAIN flights :
        /\ last' = Reloaded("reloadFlight", id,
                            FlightModel_from_json(FlightModel_to_json(id, flights[id])))
        /\ UNCHANGED <<repos, priceIn, priceOut>>

ReloadReservation ==
    \E id \in DOMAIN reservations :
        LET r == ReservationModel_from_json(ReservationModel_to_json(id, reservations[id]))
        IN  /\ last' = Reloaded("reloadReservation", id, r)
            /\ flights' = r.flights
            /\ UNCHANGED <<users, aircrafts, crewMembers, reservations, payments, priceIn, priceOut, usernameToIdMap>>

ReloadPayment ==
    \E id \in DOMAIN payments :
        /\ last' = Reloaded("reloadPayment", id,
                            PaymentModel_from_json(PaymentModel_to_json(id, payments[id])))
        /\ UNCHANGED <<repos, priceIn, priceOut>>

NextJson ==
    \/ ProcessPayment \/ RefundPayment
    \/ ReloadUser \/ ReloadAircraft \/ ReloadCrewMember
    \/ ReloadFlight \/ ReloadReservation \/ ReloadPayment

SpecJson == InitJson /\ [][NextJson]_vars

\* the repository a reload call reads its object from
RepositoryOf(op) ==
    IF op = "reloadUser" THEN users
    ELSE IF op = "reloadAircraft" THEN aircrafts
    ELSE IF op = "reloadCrewMember" THEN crewMembers
    ELSE IF op = "reloadFlight" THEN flights
    ELSE IF op = "reloadReservation" THEN reservations
    ELSE payments

ReloadOps ==
    {"reloadUser", "reloadAircraft", "reloadCrewMember", "reloadFlight",
     "reloadReservation", "reloadPayment"}

\* C19: for every object a repository holds (aircraft, flight, crew member,
\* user of each role, reservation, and payment in each status PENDING,
\* COMPLETED, REFUNDED with each payment method), constructing an object from
\* the JSON its to_json produces succeeds and yields identical field values
C19_JsonRoundTrip ==
    last.op \in ReloadOps =>
        /\ last.ret = "ok"
        /\ last.details.object = RepositoryOf(last.op)[last.details.id]

-----------------------------------------------------------------------------
(* The controllers: every operation behind its check of the caller *)

\* the result of a controller call and the repositories after it; no
\* controller operation writes the crew member repository
Ctl(ret, u, a, f, r, p) ==
    [ret |-> ret, users |-> u, usernameToIdMap |-> usernameToIdMap,
     aircrafts |-> a, flights |-> f, reservations |-> r, payments |-> p]

\* a call that returns ret and writes nothing
Same(ret) == Ctl(ret, users, aircrafts, flights, reservations, payments)

OfFleet(o) == Ctl(o.ret, users, o.aircrafts, o.flights, reservations, payments)

OfBooking(o) == Ctl(o.ret, o.users, aircrafts, o.flights, o.reservations, o.payments)

OfPayment(o) == Ctl(o.ret, users, aircrafts, flights, reservations, o.payments)

RUNTIME_ERROR == "runtime_error"

\* the outcome of a UserRepository call on the users u and the map m
UserOutcome(ret, u, m) == [ret |-> ret, users |-> u, usernameToIdMap |-> m]

\* a user object: the stored fields with the id the object carries; role
\* is the class of the object, which to_json writes
UserObject(userId, u) ==
    [userId |-> userId, username |-> u.username, password |-> u.password,
     role |-> u.role, loyaltyPoints |-> u.loyaltyPoints]

\* the polymorphic copy UserRepository makes: to_json, then
\* UserFactory::createUser(json)
createdUser(user) == UserModel_from_json(UserModel_to_json(user.userId, user))

\* UserRepository::addUser
UserRepository_addUser(u, m, newUser) ==
    IF newUser.userId \in DOMAIN u THEN UserOutcome("false", u, m)
    ELSE IF newUser.username \in DOMAIN m THEN UserOutcome("false", u, m)
    ELSE IF createdUser(newUser).throws THEN UserOutcome(INVALID_ARGUMENT, u, m)
    ELSE UserOutcome("true", Put(u, newUser.userId, createdUser(newUser).object),
                     Put(m, newUser.username, newUser.userId))

\* UserRepository::updateUser: the old username leaves the map before the
\* copy is constructed
UserRepository_updateUser(u, m, user) ==
    IF user.userId \notin DOMAIN u THEN UserOutcome("false", u, m)
    ELSE
      LET renamed == u[user.userId].username # user.username
          erased  == IF renamed THEN Erase(m, u[user.userId].username) ELSE m
      IN  IF renamed /\ user.username \in DOMAIN m /\ m[user.username] # user.userId
          THEN UserOutcome("false", u, m)
          ELSE IF createdUser(user).throws
          THEN UserOutcome(INVALID_ARGUMENT, u, erased)
          ELSE UserOutcome("true", Put(u, user.userId, createdUser(user).object),
                           Put(erased, user.username, user.userId))

\* UserRepository::deleteUser
UserRepository_deleteUser(u, m, userId) ==
    IF userId \notin DOMAIN u THEN UserOutcome("false", u, m)
    ELSE UserOutcome("true", Erase(u, userId), Erase(m, u[userId].username))

\* a mutated login: the password is not compared
authenticateUser_anypassword(username, password) ==
    IF username \notin DOMAIN usernameToIdMap THEN NULLOPT
    ELSE IF ~findUserById(usernameToIdMap[username]) THEN NULLOPT
    ELSE usernameToIdMap[username]

\* UserRepository::findUserByUsername followed by
\* UserManagementService::authenticateUser, which AuthController::login calls
authenticateUser(username, password) ==
    IF username \notin DOMAIN usernameToIdMap THEN NULLOPT
    ELSE IF ~findUserById(usernameToIdMap[username]) THEN NULLOPT
    ELSE IF users[usernameToIdMap[username]].password = password
    THEN usernameToIdMap[username]
    ELSE NULLOPT

\* the result of a user service call as a controller outcome
OfUsers(ret, o) ==
    [Ctl(ret, o.users, aircrafts, flights, reservations, payments) EXCEPT !.usernameToIdMap = o.usernameToIdMap]

\* UserManagementService::createUser: UserFactory::createUser constructs the
\* user (newId is the id the constructor draws), UserRepository::addUser
\* stores the user rebuilt from its JSON
UserManagementService_createUser(username, password, role, newId) ==
    IF username = "" \/ password = "" THEN Same(INVALID_ARGUMENT)
    ELSE IF role \notin {"Passenger", "BookingManager", "Admin"}
    THEN Same(INVALID_ARGUMENT)
    ELSE
      LET newUser == [userId |-> newId, username |-> username,
                      password |-> password, role |-> role, loyaltyPoints |-> 0]
          added == UserRepository_addUser(users, usernameToIdMap, newUser)
      IN  IF added.ret = "true" THEN OfUsers(newId, added)
          ELSE IF added.ret = "false" THEN OfUsers(NULLOPT, added)
          ELSE OfUsers(added.ret, added)

\* UserManagementService::updateUserPassword: setPassword on the stored
\* object, then UserRepository::updateUser with that object
UserManagementService_updateUserPassword(userId, newPassword) ==
    IF ~findUserById(userId) THEN Same("false")
    ELSE
      LET stored == [users EXCEPT ![userId].password = newPassword]
      IN  OfUsers(UserRepository_updateUser(stored, usernameToIdMap, UserObject(userId, stored[userId])).ret,
                  UserRepository_updateUser(stored, usernameToIdMap, UserObject(userId, stored[userId])))

\* UserManagementService::deleteUser
UserManagementService_deleteUser(userId) ==
    OfUsers(UserRepository_deleteUser(users, usernameToIdMap, userId).ret,
            UserRepository_deleteUser(users, usernameToIdMap, userId))

\* FlightService::deleteFlight
FlightService_deleteFlight(flightId) ==
    IF ~findFlightById(flightId) THEN Same("false")
    ELSE Ctl("true", users, aircrafts, Erase(flights, flightId), reservations,
             payments)

\* FlightService::updateFlight(flight): the repository replaces the flight
\* stored under the id of the given flight
FlightService_updateFlightModel(flightId, flight) ==
    IF ~findFlightById(flightId) THEN Same("false")
    ELSE Ctl("true", users, aircrafts, Put(flights, flightId, flight),
             reservations, payments)

\* FlightService::addCrewToFlight(flightId, crewIds)
FlightService_addCrewToFlight(flightId, crewIds) ==
    IF ~findFlightById(flightId) THEN Same("false")
    ELSE Ctl("true", users, aircrafts,
             [flights EXCEPT ![flightId].crewMemberIds = crewIds],
             reservations, payments)

\* FlightService::addCrewToFlight(flightId, crewMemberId)
FlightService_addCrewMemberToFlight(flightId, crewMemberId) ==
    IF ~findFlightById(flightId) THEN Same("false")
    ELSE Ctl("true", users, aircrafts,
             [flights EXCEPT ![flightId].crewMemberIds = Append(@, crewMemberId)],
             reservations, payments)

\* FlightModel::removeCrewMemberId: the ids without the first occurrence
RECURSIVE removeCrewMemberId(_, _)
removeCrewMemberId(crewMemberIds, id) ==
    IF crewMemberIds = <<>> THEN <<>>
    ELSE IF Head(crewMemberIds) = id THEN Tail(crewMemberIds)
    ELSE <<Head(crewMemberIds)>> \o removeCrewMemberId(Tail(crewMemberIds), id)

\* FlightService::removeCrewMemberFromFlight
FlightService_removeCrewMemberFromFlight(flightId, crewMemberId) ==
    IF ~findFlightById(flightId) THEN Same("false")
    ELSE IF \A i \in 1..Len(flights[flightId].crewMemberIds) :
                flights[flightId].crewMemberIds[i] # crewMemberId
    THEN Same("false")
    ELSE Ctl("true", users, aircrafts,
             [flights EXCEPT ![flightId].crewMemberIds =
                                 removeCrewMemberId(@, crewMemberId)],
             reservations, payments)

\* FlightService::getCrewMembersOfFlight as AdminController inlines it
getCrewMembersOfFlight(flightId) ==
    IF ~findFlightById(flightId) THEN {}
    ELSE {flights[flightId].crewMemberIds[i] :
             i \in 1..Len(flights[flightId].crewMemberIds)} \cap DOMAIN crewMembers

\* AircraftService::deleteAircraft
AircraftService_deleteAircraft(aircraftId) ==
    IF aircraftId \notin DOMAIN aircrafts THEN Same("false")
    ELSE Ctl("true", users, Erase(aircrafts, aircraftId), flights,
             reservations, payments)

\* DateTime::sameDay
sameDay(a, b) == a[1] = b[1] /\ a[2] = b[2] /\ a[3] = b[3]

\* FlightRepository::getFlightsByCriteria
getFlightsByCriteria(origin, destination, departureDate) ==
    {id \in DOMAIN flights :
        /\ flights[id].origin = origin
        /\ flights[id].destination = destination
        /\ sameDay(flights[id].departureTime, departureDate)}

\* UserRepository::getUsersByRole
getUsersByRole(role) == {id \in DOMAIN users : users[id].role = role}

\* CrewMemberRepository::findCrewMembersByRole
findCrewMembersByRole(role) ==
    {id \in DOMAIN crewMembers : crewMembers[id].role = role}

\* ReservationRepository::findReservationsByPassenger
findReservationsByPassenger(passengerId) ==
    {id \in DOMAIN reservations : reservations[id].passengerId = passengerId}

\* an optional holding the object stored under id, if there is one
Found(repo, id) == IF id \in DOMAIN repo THEN id ELSE NULLOPT

-----------------------------------------------------------------------------
(* The controllers called by every kind of caller *)

\* the longest crew list a flight is given
MaxCrew == 1

\* the ids the constructors draw in this specification
ManagerPool == {"BM-2"}

FleetFlightPool == {"FL-1", "FL-2"}

ReservationPool == {"RES-1"}

PaymentPool == {"PAY-1"}

\* the callers of each controller: the user of its role, a user of another
\* role and an id no user has
AdminCallers == {"ADM-1", "BM-1", "USR-9"}

ManagerCallers == {"BM-1", "PAS-1", "USR-9"}

PassengerCallers == {"PAS-1", "ADM-1", "USR-9"}

\* a FlightModel object for FL-2 as a caller of updateFlight(flight) holds it
UpdatedFlightData ==
    [origin |-> "CAI", destination |-> "JED", departureTime |-> Noon,
     arrivalTime |-> Evening, aircraftId |-> "AC-1", crewMemberIds |-> <<>>,
     seatMap |-> FreeGrid(Geometry(1, 2))]

\* a ReservationModel object for RES-1 moved to seat 1B
UpdatedReservation ==
    [reservationId |-> "RES-1", flightId |-> "FL-1", passengerId |-> "PAS-1",
     seatNumber |-> "1B", status |-> "CONFIRMED", paymentId |-> "PAY-1"]

\* one user of each role, aircraft AC-1 of one row of two seats, flight FL-1
\* on it, two crew members, no reservation and no payment
InitAuth ==
    /\ users = [id \in {"PAS-1", "BM-1", "ADM-1"} |->
                  [role |-> IF id = "PAS-1" THEN "Passenger"
                            ELSE IF id = "BM-1" THEN "BookingManager"
                            ELSE "Admin",
                   loyaltyPoints |-> 0, username |-> id, password |-> "secret"]]
    /\ aircrafts = [id \in {"AC-1"} |-> Geometry(1, 2) @@ [model |-> "A320"]]
    /\ crewMembers = [id \in {"CM-1", "CM-2"} |->
                        IF id = "CM-1" THEN [name |-> "Amr", role |-> "Pilot"]
                        ELSE [name |-> "Mona", role |-> "FlightAttendant"]]
    /\ flights = [id \in {"FL-1"} |->
                    [origin |-> "CAI", destination |-> "DXB",
                     departureTime |-> Noon, arrivalTime |-> Evening,
                     aircraftId |-> "AC-1", crewMemberIds |-> <<>>,
                     seatMap |-> FreeGrid(Geometry(1, 2))]]
    /\ reservations = [id \in {} |-> 0]
    /\ payments = [id \in {} |-> 0]
    /\ last = NoCall
    /\ priceIn = NoPriceInput
    /\ priceOut = NoPrice
    /\ usernameToIdMap = UsernameMap(users)

\* the repositories and the call record after a controller call
ApplyCtl(o, op, caller) ==
    /\ NoId \notin DOMAIN o.users
    /\ NoId \notin DOMAIN o.aircrafts
    /\ NoId \notin DOMAIN o.flights
    /\ NoId \notin DOMAIN o.reservations
    /\ NoId \notin DOMAIN o.payments
    /\ \A id \in DOMAIN o.flights : Len(o.flights[id].crewMemberIds) <= MaxCrew
    /\ users' = o.users
    /\ usernameToIdMap' = o.usernameToIdMap
    /\ aircrafts' = o.aircrafts
    /\ flights' = o.flights
    /\ reservations' = o.reservations
    /\ payments' = o.payments
    /\ last' = [NoCall EXCEPT !.op = op, !.caller = caller, !.ret = o.ret]
    /\ UNCHANGED <<crewMembers, priceIn, priceOut>>

AdminCreateUser ==
    \E adminId \in AdminCallers :
        ApplyCtl(IF ~confirmAdmin(adminId) THEN Same(NULLOPT)
                 ELSE UserManagementService_createUser("manager2", "secret", "BookingManager", FirstOf(ManagerPool, users)),
                 "AdminController::createUser", adminId)

AdminUpdateUserPassword ==
    \E adminId \in AdminCallers :
        ApplyCtl(IF ~confirmAdmin(adminId) THEN Same("false")
                 ELSE UserManagementService_updateUserPassword("BM-2", "secret"),
                 "AdminController::updateUserPassword", adminId)

AdminDeleteUser ==
    \E adminId \in AdminCallers :
        ApplyCtl(IF ~confirmAdmin(adminId) THEN Same("false")
                 ELSE UserManagementService_deleteUser("BM-2"),
                 "AdminController::deleteUser", adminId)

AdminGetAllUsers ==
    \E adminId \in AdminCallers :
        ApplyCtl(IF ~confirmAdmin(adminId) THEN Same({}) ELSE Same(DOMAIN users),
                 "AdminController::getAllUsers", adminId)

AdminGetUserById ==
    \E adminId \in AdminCallers :
        ApplyCtl(IF ~confirmAdmin(adminId) THEN Same(NULLOPT) ELSE Same(Found(users, "PAS-1")),
                 "AdminController::getUserById", adminId)

AdminGetAllCrewMembers ==
    \E adminId \in AdminCallers :
        ApplyCtl(IF ~confirmAdmin(adminId) THEN Same({}) ELSE Same(findCrewMembersByRole("Pilot")),
                 "AdminController::getAllCrewMembers", adminId)

AdminGetCrewMemberById ==
    \E adminId \in AdminCallers :
        ApplyCtl(IF ~confirmAdmin(adminId) THEN Same(NULLOPT)
                 ELSE Same(Found(crewMembers, "CM-1")),
                 "AdminController::getCrewMemberById", adminId)

AdminAddFlight ==
    \E adminId \in AdminCallers :
        ApplyCtl(OfFleet(AdminController_addFlight(adminId, "CAI", "DXB", Noon, Evening, "AC-1", <<>>, FirstOf(FleetFlightPool, flights))),
                 "AdminController::addFlight", adminId)

AdminRemoveFlight ==
    \E adminId \in AdminCallers :
        ApplyCtl(IF ~confirmAdmin(adminId) THEN Same("false")
                 ELSE FlightService_deleteFlight("FL-2"),
                 "AdminController::removeFlight", adminId)

AdminUpdateFlightModel ==
    \E adminId \in AdminCallers :
        ApplyCtl(IF ~confirmAdmin(adminId) THEN Same("false")
                 ELSE FlightService_updateFlightModel("FL-2", UpdatedFlightData),
                 "AdminController::updateFlight(flight)", adminId)

AdminUpdateFlight ==
    \E adminId \in AdminCallers :
        ApplyCtl(OfFleet(AdminController_updateFlight(adminId, "FL-2", "CAI", "JED", Noon, Evening, "AC-1")),
                 "AdminController::updateFlight", adminId)

AdminGetAllFlights ==
    \E adminId \in AdminCallers :
        ApplyCtl(IF ~confirmAdmin(adminId) THEN Same({}) ELSE Same(DOMAIN flights),
                 "AdminController::getAllFlights", adminId)

AdminGetFlightById ==
    \E adminId \in AdminCallers :
        ApplyCtl(IF ~confirmAdmin(adminId) THEN Same(NULLOPT) ELSE Same(Found(flights, "FL-2")),
                 "AdminController::getFlightById", adminId)

AdminAssignCrewToFlight ==
    \E adminId \in AdminCallers :
        ApplyCtl(IF ~confirmAdmin(adminId) THEN Same("false")
                 ELSE FlightService_addCrewToFlight("FL-2", <<"CM-1">>),
                 "AdminController::assignCrewToFlight(crewIds)", adminId)

AdminAssignCrewMemberToFlight ==
    \E adminId \in AdminCallers :
        ApplyCtl(IF ~confirmAdmin(adminId) THEN Same("false")
                 ELSE FlightService_addCrewMemberToFlight("FL-2", "CM-1"),
                 "AdminController::assignCrewToFlight", adminId)

AdminRemoveCrewMemberFromFlight ==
    \E adminId \in AdminCallers :
        ApplyCtl(IF ~confirmAdmin(adminId) THEN Same("false")
                 ELSE FlightService_removeCrewMemberFromFlight("FL-2", "CM-1"),
                 "AdminController::removeCrewMemberFromFlight", adminId)

AdminGetCrewMembersOfFlight ==
    \E adminId \in AdminCallers :
        ApplyCtl(IF ~confirmAdmin(adminId) THEN Same({})
                 ELSE Same(getCrewMembersOfFlight("FL-2")),
                 "AdminController::getCrewMembersOfFlight", adminId)

AdminAddAircraft ==
    \E adminId \in AdminCallers :
        ApplyCtl(OfFleet(AdminController_addAircraft(adminId, "A320", 2, 2, FirstOf(AircraftPool, aircrafts))),
                 "AdminController::addAircraft", adminId)

AdminUpdateAircraft ==
    \E adminId \in AdminCallers :
        ApplyCtl(OfFleet(AdminController_updateAircraft(adminId, "AC-2", "A321", 2, 1)),
                 "AdminController::updateAircraft", adminId)

AdminRemoveAircraft ==
    \E adminId \in AdminCallers :
        ApplyCtl(IF ~confirmAdmin(adminId) THEN Same("false")
                 ELSE AircraftService_deleteAircraft("AC-2"),
                 "AdminController::removeAircraft", adminId)

AdminGetAllAircrafts ==
    \E adminId \in AdminCallers :
        ApplyCtl(IF ~confirmAdmin(adminId) THEN Same({}) ELSE Same(DOMAIN aircrafts),
                 "AdminController::getAllAircrafts", adminId)

AdminGetAircraftById ==
    \E adminId \in AdminCallers :
        ApplyCtl(IF ~confirmAdmin(adminId) THEN Same(NULLOPT)
                 ELSE Same(Found(aircrafts, "AC-2")),
                 "AdminController::getAircraftById", adminId)

ManagerGetAllReservations ==
    \E bookingManagerId \in ManagerCallers :
        ApplyCtl(IF ~authenticateBookingManager(bookingManagerId) THEN Same({})
                 ELSE Same(DOMAIN reservations),
                 "BookingManagerController::getAllReservations", bookingManagerId)

ManagerGetReservationDetails ==
    \E bookingManagerId \in ManagerCallers :
        ApplyCtl(IF ~authenticateBookingManager(bookingManagerId) THEN Same(NULLOPT)
                 ELSE Same(Found(reservations, "RES-1")),
                 "BookingManagerController::getReservationDetails", bookingManagerId)

ManagerCreateReservation ==
    \E bookingManagerId \in ManagerCallers :
        ApplyCtl(OfBooking(createReservation(bookingManagerId, "PAS-1", "FL-1", "1A", "cash", EmptyJSON, FirstOf(PaymentPool, payments), FirstOf(ReservationPool, reservations))),
                 "BookingManagerController::createReservation", bookingManagerId)

ManagerUpdateReservation ==
    \E bookingManagerId \in ManagerCallers :
        ApplyCtl(IF ~authenticateBookingManager(bookingManagerId) THEN Same("false")
                 ELSE OfBooking(updateReservation(UpdatedReservation)),
                 "BookingManagerController::updateReservation", bookingManagerId)

ManagerCancelReservation ==
    \E bookingManagerId \in ManagerCallers :
        ApplyCtl(IF ~authenticateBookingManager(bookingManagerId) THEN Same("false")
                 ELSE OfBooking(deleteReservation("RES-1")),
                 "BookingManagerController::cancelReservation", bookingManagerId)

ManagerProcessPayment ==
    \E bookingManagerId \in ManagerCallers :
        ApplyCtl(IF ~authenticateBookingManager(bookingManagerId) THEN Same("Unauthorized")
                 ELSE OfPayment(PaymentService_processPayment("PAY-1")),
                 "BookingManagerController::processPayment", bookingManagerId)

ManagerRefundPayment ==
    \E bookingManagerId \in ManagerCallers :
        ApplyCtl(IF ~authenticateBookingManager(bookingManagerId) THEN Same("Unauthorized")
                 ELSE OfPayment(PaymentService_refundPayment("PAY-1")),
                 "BookingManagerController::refundPayment", bookingManagerId)

ManagerGetAllFlights ==
    \E bookingManagerId \in ManagerCallers :
        ApplyCtl(IF ~authenticateBookingManager(bookingManagerId) THEN Same({})
                 ELSE Same(DOMAIN flights),
                 "BookingManagerController::getAllFlights", bookingManagerId)

ManagerGetFlightsByRouteAndDate ==
    \E bookingManagerId \in ManagerCallers :
        ApplyCtl(IF ~authenticateBookingManager(bookingManagerId) THEN Same({})
                 ELSE Same(getFlightsByCriteria("CAI", "DXB", Evening)),
                 "BookingManagerController::getFlightsByRouteAndDate", bookingManagerId)

ManagerGetAllPassengers ==
    \E bookingManagerId \in ManagerCallers :
        ApplyCtl(IF ~authenticateBookingManager(bookingManagerId) THEN Same({})
                 ELSE Same(getUsersByRole("Passenger")),
                 "BookingManagerController::getAllPassengers", bookingManagerId)

ManagerGetPassengerDetails ==
    \E bookingManagerId \in ManagerCallers :
        ApplyCtl(IF ~authenticateBookingManager(bookingManagerId) THEN Same(NULLOPT)
                 ELSE Same(Found(users, "PAS-1")),
                 "BookingManagerController::getPassengerDetails", bookingManagerId)

ManagerGetFlightDetails ==
    \E bookingManagerId \in ManagerCallers :
        ApplyCtl(IF ~authenticateBookingManager(bookingManagerId) THEN Same(NULLOPT)
                 ELSE Same(Found(flights, "FL-1")),
                 "BookingManagerController::getFlightDetails", bookingManagerId)

PassengerGetAllFlights ==
    \E passengerId \in PassengerCallers :
        ApplyCtl(IF ~authenticatePassenger(passengerId) THEN Same({})
                 ELSE Same(DOMAIN flights),
                 "PassengerController::getAllFlights", passengerId)

PassengerGetFlightsByRouteAndDate ==
    \E passengerId \in PassengerCallers :
        ApplyCtl(IF ~authenticatePassenger(passengerId) THEN Same({})
                 ELSE Same(getFlightsByCriteria("CAI", "DXB", Evening)),
                 "PassengerController::getFlightsByRouteAndDate", passengerId)

PassengerBookFlight ==
    \E passengerId \in PassengerCallers :
        ApplyCtl(OfBooking(bookFlight(passengerId, "FL-1", "1A", "cash", EmptyJSON, FirstOf(PaymentPool, payments), FirstOf(ReservationPool, reservations))),
                 "PassengerController::bookFlight", passengerId)

PassengerGetPassengerReservations ==
    \E passengerId \in PassengerCallers :
        ApplyCtl(IF ~authenticatePassenger(passengerId) THEN Same({})
                 ELSE Same(findReservationsByPassenger(passengerId)),
                 "PassengerController::getPassengerReservations", passengerId)

PassengerGetFlightDetails ==
    \E passengerId \in PassengerCallers :
        ApplyCtl(IF ~authenticatePassenger(passengerId) THEN Same(NULLOPT)
                 ELSE Same(Found(flights, "FL-1")),
                 "PassengerController::getFlightDetails", passengerId)

PassengerProcessPayment ==
    \E passengerId \in PassengerCallers :
        ApplyCtl(IF ~authenticatePassenger(passengerId) THEN Same(RUNTIME_ERROR)
                 ELSE OfPayment(PaymentService_processPayment("PAY-1")),
                 "PassengerController::processPayment", passengerId)

NextAdminUsers ==
    \/ AdminCreateUser \/ AdminUpdateUserPassword \/ AdminDeleteUser
    \/ AdminGetAllUsers \/ AdminGetUserById
    \/ AdminGetAllCrewMembers \/ AdminGetCrewMemberById

NextAdminFlights ==
    \/ AdminAddFlight \/ AdminRemoveFlight \/ AdminUpdateFlightModel
    \/ AdminUpdateFlight \/ AdminGetAllFlights \/ AdminGetFlightById
    \/ AdminAssignCrewToFlight \/ AdminAssignCrewMemberToFlight
    \/ AdminRemoveCrewMemberFromFlight \/ AdminGetCrewMembersOfFlight

NextAdminAircrafts ==
    \/ AdminAddAircraft \/ AdminUpdateAircraft \/ AdminRemoveAircraft
    \/ AdminGetAllAircrafts \/ AdminGetAircraftById

NextManager ==
    \/ ManagerGetAllReservations \/ ManagerGetReservationDetails
    \/ ManagerCreateReservation \/ ManagerUpdateReservation
    \/ ManagerCancelReservation \/ ManagerProcessPayment
    \/ ManagerRefundPayment \/ ManagerGetAllFlights
    \/ ManagerGetFlightsByRouteAndDate \/ ManagerGetAllPassengers
    \/ ManagerGetPassengerDetails \/ ManagerGetFlightDetails

NextPassenger ==
    \/ PassengerGetAllFlights \/ PassengerGetFlightsByRouteAndDate
    \/ PassengerBookFlight \/ PassengerGetPassengerReservations
    \/ PassengerGetFlightDetails \/ PassengerProcessPayment

NextAuth ==
    \/ NextAdminUsers \/ NextAdminFlights \/ NextAdminAircrafts
    \/ NextManager \/ NextPassenger

SpecAuth == InitAuth /\ [][NextAuth]_vars

-----------------------------------------------------------------------------
(* Claims on the controllers' checks of the caller *)

\* the role a controller requires of its caller
RequiredRole(op) ==
    IF SubSeq(op, 1, 5) = "Admin" THEN "Admin"
    ELSE IF SubSeq(op, 1, 5) = "Booki" THEN "BookingManager"
    ELSE "Passenger"

\* the operations that return a bool
BoolOps ==
    {"AdminController::updateUserPassword", "AdminController::deleteUser",
     "AdminController::removeFlight", "AdminController::updateFlight(flight)",
     "AdminController::updateFlight",
     "AdminController::assignCrewToFlight(crewIds)",
     "AdminController::assignCrewToFlight",
     "AdminController::removeCrewMemberFromFlight",
     "AdminController::updateAircraft", "AdminController::removeAircraft",
     "BookingManagerController::updateReservation",
     "BookingManagerController::cancelReservation"}

\* the operations that return an optional
OptionalOps ==
    {"AdminController::createUser", "AdminController::getUserById",
     "AdminController::getCrewMemberById", "AdminController::addFlight",
     "AdminController::getFlightById", "AdminController::addAircraft",
     "AdminController::getAircraftById",
     "BookingManagerController::getReservationDetails",
     "BookingManagerController::createReservation",
     "BookingManagerController::getPassengerDetails",
     "BookingManagerController::getFlightDetails",
     "PassengerController::bookFlight", "PassengerController::getFlightDetails"}

\* the operations that return a vector
VectorOps ==
    {"AdminController::getAllUsers", "AdminController::getAllCrewMembers",
     "AdminController::getAllFlights", "AdminController::getCrewMembersOfFlight",
     "AdminController::getAllAircrafts",
     "BookingManagerController::getAllReservations",
     "BookingManagerController::getAllFlights",
     "BookingManagerController::getFlightsByRouteAndDate",
     "BookingManagerController::getAllPassengers",
     "PassengerController::getAllFlights",
     "PassengerController::getFlightsByRouteAndDate",
     "PassengerController::getPassengerReservations"}

\* the operations that return a message
MessageOps ==
    {"BookingManagerController::processPayment",
     "BookingManagerController::refundPayment"}

\* the operations that report the caller by an exception
ThrowingOps == {"PassengerController::processPayment"}

ControllerOps == BoolOps \cup OptionalOps \cup VectorOps \cup MessageOps \cup ThrowingOps

\* what an operation returns to a caller it does not accept
FailureValue(op) ==
    IF op \in BoolOps THEN "false"
    ELSE IF op \in OptionalOps THEN NULLOPT
    ELSE IF op \in VectorOps THEN {}
    ELSE IF op \in MessageOps THEN "Unauthorized"
    ELSE RUNTIME_ERROR

\* the step is a controller call by a caller who is no user of the role the
\* controller requires
UnauthorisedCall ==
    /\ last'.op \in ControllerOps
    /\ getUserRole(last'.caller) # RequiredRole(last'.op)

\* C20: a controller operation called by an id that is not an existing user
\* of the required role returns its failure value (false, an empty optional
\* or list, "Unauthorized", or an exception) and leaves users, aircraft,
\* flights with their seat maps, crew, reservations and payments unchanged
C20_UnauthorisedCallsChangeNothing ==
    [][UnauthorisedCall =>
          /\ last'.ret = FailureValue(last'.op)
          /\ UNCHANGED repos]_vars

\* a booking manager was refused the removal of flight FL-2 while the flight,
\* with a crew member assigned, a reservation and its payment are stored
C20_Witness ==
    /\ last.op = "AdminController::removeFlight"
    /\ last.caller = "BM-1"
    /\ last.ret = "false"
    /\ findFlightById("FL-2")
    /\ flights["FL-2"].crewMemberIds = <<"CM-1">>
    /\ findReservationById("RES-1")
    /\ findPaymentById("PAY-1")

-----------------------------------------------------------------------------
(* Users and login *)

\* the ids the user constructors draw, by role
PassengerPool == {"PAS-2"}

UserPool(role) == IF role = "Passenger" THEN PassengerPool ELSE ManagerPool

\* three users whose username is their id, all with the password "secret"
InitLogin ==
    /\ users = [id \in {"PAS-1", "BM-1", "ADM-1"} |->
                  [role |-> IF id = "PAS-1" THEN "Passenger"
                            ELSE IF id = "BM-1" THEN "BookingManager"
                            ELSE "Admin",
                   loyaltyPoints |-> 0, username |-> id, password |-> "secret"]]
    /\ usernameToIdMap = UsernameMap(users)
    /\ aircrafts = [id \in {} |-> 0]
    /\ crewMembers = InitCrewMembers
    /\ flights = [id \in {} |-> 0]
    /\ reservations = [id \in {} |-> 0]
    /\ payments = [id \in {} |-> 0]
    /\ last = NoCall
    /\ priceIn = NoPriceInput
    /\ priceOut = NoPrice

\* the user repository and the call record after a call on the users
ApplyUsers(o, op, args) ==
    /\ NoId \notin DOMAIN o.users
    /\ users' = o.users
    /\ usernameToIdMap' = o.usernameToIdMap
    /\ last' = [NoCall EXCEPT !.op = op, !.ret = o.ret, !.details = args]
    /\ UNCHANGED <<aircrafts, flights, crewMembers, reservations, payments, priceIn, priceOut>>

CreateUser ==
    \E username \in {"amr", "BM-1"}, role \in {"Passenger", "BookingManager"} :
        ApplyUsers(UserManagementService_createUser(username, "secret", role, FirstOf(UserPool(role), users)),
                   "createUser", [username |-> username, password |-> "secret"])

UpdateUserPassword ==
    \E userId \in {"BM-1", "BM-2", "PAS-2", "PAS-9"}, newPassword \in {"secret", "changed"} :
        ApplyUsers(UserManagementService_updateUserPassword(userId, newPassword),
                   "updateUserPassword", [userId |-> userId, password |-> newPassword])

DeleteUser ==
    \E userId \in {"BM-1", "BM-2", "PAS-2", "PAS-9"} :
        ApplyUsers(UserManagementService_deleteUser(userId),
                   "deleteUser", [userId |-> userId])

\* AuthController::login
Login ==
    \E username \in {"amr", "BM-1", "PAS-1", "nobody"}, password \in {"secret", "changed", ""} :
        /\ last' = [NoCall EXCEPT !.op = "login",
                                  !.ret = authenticateUser(username, password),
                                  !.details = [username |-> username, password |-> password]]
        /\ UNCHANGED <<repos, priceIn, priceOut>>

NextLogin == CreateUser \/ UpdateUserPassword \/ DeleteUser \/ Login

SpecLogin == InitLogin /\ [][NextLogin]_vars

\* the stored users with the given username and password
Holding(username, password) ==
    {id \in DOMAIN users : users[id].username = username /\ users[id].password = password}

\* C21: login(u, pw) returns a user exactly when a user with username u is
\* stored and pw is that user's current password, and then it is that user;
\* so a replaced password is rejected and the login of a deleted user fails
C21_LoginIffCurrentPassword ==
    last.op = "login" =>
        /\ last.ret # NULLOPT <=> Holding(last.details.username, last.details.password) # {}
        /\ last.ret # NULLOPT => last.ret \in Holding(last.details.username, last.details.password)

\* the login of a user created with "secret" whose password was changed is
\* refused with the old password
C21_Witness ==
    /\ last.op = "login"
    /\ last.details = [username |-> "amr", password |-> "secret"]
    /\ last.ret = NULLOPT
    /\ \E id \in DOMAIN users : users[id].username = "amr" /\ users[id].password = "changed"

-----------------------------------------------------------------------------
(* The user repository called directly *)

\* the user objects handed to addUser and updateUser: objects of both
\* classes, carrying any id, with the balance a passenger can be given by
\* its constructor or by setLoyaltyPoints
UserObjects ==
    {[userId |-> userId, username |-> username, password |-> "secret",
      role |-> role, loyaltyPoints |-> loyaltyPoints] :
        userId \in {"PAS-1", "PAS-2", "BM-1"}, username \in {"amr", "mona"},
        role \in {"Passenger", "BookingManager"}, loyaltyPoints \in {0, -1}}

\* the repository as loaded: passenger PAS-1 with the username "amr"
InitUserRepository ==
    /\ users = [id \in {"PAS-1"} |->
                  [role |-> "Passenger", loyaltyPoints |-> 0,
                   username |-> "amr", password |-> "secret"]]
    /\ usernameToIdMap = UsernameMap(users)
    /\ aircrafts = [id \in {} |-> 0]
    /\ crewMembers = InitCrewMembers
    /\ flights = [id \in {} |-> 0]
    /\ reservations = [id \in {} |-> 0]
    /\ payments = [id \in {} |-> 0]
    /\ last = NoCall
    /\ priceIn = NoPriceInput
    /\ priceOut = NoPrice

AddUser ==
    \E newUser \in UserObjects :
        ApplyUsers(UserRepository_addUser(users, usernameToIdMap, newUser),
                   "addUser", newUser)

UpdateUser ==
    \E user \in UserObjects :
        ApplyUsers(UserRepository_updateUser(users, usernameToIdMap, user),
                   "updateUser", user)

NextUserRepository == AddUser \/ UpdateUser \/ DeleteUser

SpecUserRepository == InitUserRepository /\ [][NextUserRepository]_vars

\* no two stored users share a username, and the map holds exactly the
\* stored users' usernames, each with its user's id
MapMatchesUsers ==
    /\ \A a, b \in DOMAIN users : users[a].username = users[b].username => a = b
    /\ DOMAIN usernameToIdMap = {users[id].username : id \in DOMAIN users}
    /\ \A username \in DOMAIN usernameToIdMap :
          /\ usernameToIdMap[username] \in DOMAIN users
          /\ users[usernameToIdMap[username]].username = username

\* the step is an addUser call whose id or username is in use
AddInUse ==
    /\ last'.op = "addUser"
    /\ \/ last'.details.userId \in DOMAIN users
       \/ last'.details.username \in DOMAIN usernameToIdMap

\* C22: after every addUser, updateUser and deleteUser call no two stored
\* users share a username and the username-to-id map has exactly one entry
\* per stored user, from its current username to its id; addUser with an id
\* or username in use returns false and changes nothing
C22_UsernameMapMatchesUsers ==
    [][/\ MapMatchesUsers'
       /\ AddInUse => last'.ret = "false" /\ UNCHANGED repos]_vars


-----------------------------------------------------------------------------
(* Cancelling after the fleet has changed *)

\* the repositories and the call record after a fleet call made between
\* bookings
ApplyCancel(o, op) ==
    /\ aircrafts' = o.aircrafts
    /\ flights' = o.flights
    /\ last' = [NoCall EXCEPT !.op = op, !.ret = o.ret]
    /\ UNCHANGED <<users, usernameToIdMap, crewMembers, reservations,
                   payments, priceIn, priceOut>>

\* AircraftService::deleteAircraft called on an aircraft of the fleet
RemoveAircraft ==
    \E aircraftId \in {"AC-1", "AC-2"} :
        ApplyCancel(AircraftService_deleteAircraft(aircraftId),
                    "deleteAircraft")

\* FlightService::deleteFlight called on a flight of the schedule
RemoveFlight ==
    \E flightId \in {"FL-1", "FL-2"} :
        ApplyCancel(FlightService_deleteFlight(flightId), "deleteFlight")

\* bookings and cancellations of a passenger while aircraft and flights are
\* removed
NextCancel == AddReservation \/ DeleteReservation \/ RemoveAircraft \/ RemoveFlight

SpecCancel == Init /\ [][NextCancel]_vars

\* the repositories after the reservation is removed and, when its flight is
\* still stored, its seat freed
Cancelled(reservationId) ==
    LET reservation == reservations[reservationId]
    IN  /\ reservations' = Erase(reservations, reservationId)
        /\ flights' = IF findFlightById(reservation.flightId)
                      THEN setSeatStatus(flights, reservation.flightId,
                                         reservation.seatNumber, FALSE)
                      ELSE flights
        /\ UNCHANGED <<users, usernameToIdMap, aircrafts, payments>>

\* C23: deleteReservation(id) returns true and removes the reservation
\* whenever a reservation with that id is stored, freeing its seat when its
\* flight is still stored and skipping the seat when the flight is gone; for
\* an id that is not stored it returns false and changes nothing
C23_DeleteAlwaysRemoves ==
    [][last'.op = "deleteReservation" =>
          IF findReservationById(last'.reservationId)
          THEN /\ last'.ret = "true"
               /\ Cancelled(last'.reservationId)
          ELSE /\ last'.ret = "false"
               /\ UNCHANGED repos]_vars


-----------------------------------------------------------------------------
(* Payments *)

\* PaymentRepository::deletePayment: the call is refused when the id is
\* found; otherwise erase is called on the id, which no payment has
PaymentRepository_deletePayment(paymentId) ==
    IF findPaymentById(paymentId)
    THEN [ret |-> "false", payments |-> payments]
    ELSE [ret |-> "true", payments |-> Erase(payments, paymentId)]

DeletePayment ==
    \E paymentId \in {"PAY-1", "PAY-9"} :
        LET o == PaymentRepository_deletePayment(paymentId)
        IN  /\ payments' = o.payments
            /\ last' = [NoCall EXCEPT !.op = "deletePayment", !.ret = o.ret,
                                      !.details = [paymentId |-> paymentId]]
            /\ UNCHANGED <<users, aircrafts, flights, crewMembers, reservations, priceIn, priceOut, usernameToIdMap>>

\* bookings of a passenger paying cash, and the payment calls on the payment
\* of the first booking and on an id no payment has
NextPayments == AddReservation \/ ProcessPayment \/ RefundPayment \/ DeletePayment

SpecPayments == Init /\ [][NextPayments]_vars

\* the payment call just made set the status of the stored payment, or found
\* no payment and changed none
StatusSetTo(status) ==
    LET paymentId == last'.details.paymentId
    IN  IF findPaymentById(paymentId)
        THEN /\ payments' = [payments EXCEPT ![paymentId].status = status]
             /\ last'.ret # "Payment not found"
        ELSE /\ last'.ret = "Payment not found"
             /\ payments' = payments

\* C24: a payment created by a booking is PENDING; processPayment(id) sets
\* the stored payment to COMPLETED and refundPayment(id) sets it to REFUNDED;
\* for an id that is not stored both return "Payment not found" and change no
\* payment
C24_PaymentStatus ==
    [][/\ last'.op = "addReservation" =>
             \A id \in DOMAIN payments' \ DOMAIN payments :
                 payments'[id].status = "PENDING"
       /\ last'.op = "processPayment" => StatusSetTo("COMPLETED")
       /\ last'.op = "refundPayment" => StatusSetTo("REFUNDED")]_vars

\* the payment of a booking was completed and then refunded
C24_Witness ==
    /\ last.op = "refundPayment"
    /\ last.ret = "refunded"
    /\ findPaymentById("PAY-1")
    /\ payments["PAY-1"].status = "REFUNDED"
    /\ findReservationById("RES-1")

\* C25: deletePayment(id) removes the payment and returns true when a
\* payment with that id is stored, and returns false leaving the payments
\* unchanged when none is
C25_DeletePayment ==
    [][last'.op = "deletePayment" =>
          IF findPaymentById(last'.details.paymentId)
          THEN /\ last'.ret = "true"
               /\ payments' = Erase(payments, last'.details.paymentId)
          ELSE /\ last'.ret = "false"
               /\ payments' = payments]_vars

\* C30: a payment that is REFUNDED is not COMPLETED after a processPayment
\* or refundPayment call
C30_RefundedStaysRefunded ==
    [][last'.op \in {"processPayment", "refundPayment"} =>
          \A id \in DOMAIN payments :
              payments[id].status = "REFUNDED" =>
                  payments'[id].status # "COMPLETED"]_vars


-----------------------------------------------------------------------------
(* The modify-booking flow of the Booking Manager *)

\* the result of a step of the flow and the two repositories it writes
Modified(ret, f, r) == [ret |-> ret, flights |-> f, reservations |-> r]

\* ReservationModel::setSeatNumber called on the reservation object the
\* repository holds: the old seat is freed, the seat code is assigned, then
\* the new seat is marked; a setSeatStatus that throws leaves what was
\* written before it
ReservationModel_setSeatNumber(reservationId, seatNumber) ==
    LET reservation == reservations[reservationId]
        flightId    == reservation.flightId
        moved       == [reservations EXCEPT ![reservationId].seatNumber = seatNumber]
    IN  IF ~findFlightById(flightId)
        THEN Modified(INVALID_ARGUMENT, flights, reservations)
        ELSE IF ~isValidSeat(flights[flightId], reservation.seatNumber)
        THEN Modified(INVALID_ARGUMENT, flights, reservations)
        ELSE
          LET freed == setSeatStatus(flights, flightId,
                                     reservation.seatNumber, FALSE)
          IN  IF ~isValidSeat(flights[flightId], seatNumber)
              THEN Modified(INVALID_ARGUMENT, freed, moved)
              ELSE Modified("ok",
                            setSeatStatus(freed, flightId, seatNumber, TRUE),
                            moved)

\* ReservationService::updateReservation called with the reservation object
\* held in r under reservationId: the old reservation it looks up is the
\* object it was given, so neither flight nor seat differ, no seat is tested
\* or written, and the repository stores a copy of the object
updateReservation_stored(f, r, reservationId) ==
    IF reservationId \notin DOMAIN r THEN Modified("false", f, r)
    ELSE IF r[reservationId].flightId \notin DOMAIN f
    THEN Modified("false", f, r)
    ELSE Modified("true", f, Put(r, reservationId, r[reservationId]))

\* BookingManagerInterface::modifyBooking with the reservation id and the
\* seat number read from the input; currentUser is the manager logged in
modifyBooking(currentUser, reservationId, newSeatNumber) ==
    IF ~authenticateBookingManager(currentUser)
    THEN Modified(NULLOPT, flights, reservations)
    ELSE IF ~findReservationById(reservationId)
    THEN Modified(NULLOPT, flights, reservations)
    ELSE IF ~findFlightById(reservations[reservationId].flightId)
    THEN Modified(NULLOPT, flights, reservations)
    ELSE IF newSeatNumber = ""
    THEN Modified("unchanged", flights, reservations)
    ELSE
      LET seated == ReservationModel_setSeatNumber(reservationId, newSeatNumber)
      IN  IF seated.ret = INVALID_ARGUMENT THEN seated
          ELSE updateReservation_stored(seated.flights, seated.reservations,
                                        reservationId)

ModifyBooking ==
    \E reservationId \in ReservationIds, newSeatNumber \in {"1A", "1B", "1C", ""} :
        \E o \in {modifyBooking("BM-1", reservationId, newSeatNumber)} :
            /\ flights' = o.flights
            /\ reservations' = o.reservations
            /\ last' = [NoCall EXCEPT
                          !.op = "modifyBooking", !.ret = o.ret,
                          !.caller = "BM-1",
                          !.reservationId = reservationId,
                          !.seatNumber = newSeatNumber,
                          !.oldFlightId =
                              IF findReservationById(reservationId)
                              THEN reservations[reservationId].flightId
                              ELSE "",
                          !.oldSeatNumber =
                              IF findReservationById(reservationId)
                              THEN reservations[reservationId].seatNumber
                              ELSE ""]
            /\ UNCHANGED <<users, usernameToIdMap, aircrafts, crewMembers,
                           payments, priceIn, priceOut>>

\* bookings of a passenger and modifications by the Booking Manager
NextModify == AddReservation \/ ModifyBooking

SpecModify == Init /\ [][NextModify]_vars

\* another stored reservation holds the new seat of the modification on the
\* flight of the reservation being modified
HeldByAnother ==
    /\ findReservationById(last'.reservationId)
    /\ \E other \in DOMAIN reservations \ {last'.reservationId} :
          /\ reservations[other].flightId = last'.oldFlightId
          /\ reservations[other].seatNumber = last'.seatNumber

\* no two stored reservations hold the same seat of a flight
SeatsExclusive ==
    \A id1, id2 \in DOMAIN reservations :
        (id1 # id2 /\ reservations[id1].flightId = reservations[id2].flightId)
          => reservations[id1].seatNumber # reservations[id2].seatNumber

\* a cell of a seat map is marked exactly when a stored reservation holds it
SeatMapMarksHeld ==
    \A flightId \in DOMAIN flights :
        \A cell \in Cells(flightId) :
            flights[flightId].seatMap[cell[1]][cell[2]]
              <=> Holders(flightId, cell) # {}

\* C26: the modify-booking flow refuses a new seat that another reservation
\* holds on the flight, leaving the reservations and the seat map unchanged;
\* after any modify no two reservations hold the same seat of a flight and
\* the seat map marks exactly the held seats
C26_ModifyKeepsSeatsExclusive ==
    [][last'.op = "modifyBooking" =>
          /\ HeldByAnother =>
                /\ last'.ret = "false"
                /\ UNCHANGED <<reservations, flights>>
          /\ SeatsExclusive'
          /\ SeatMapMarksHeld']_vars


-----------------------------------------------------------------------------
(* DateTime::operator<= on its own *)

\* dates at the ends of every field: <<year, month, day, hour, minute>>
DateInputs == {2024, 2025} \X {1, 12} \X {1, 31} \X {0, 23} \X {0, 59}

\* the two operands are drawn and the comparison is still to be made
InitDates ==
    /\ users = InitUsers
    /\ aircrafts = InitAircrafts
    /\ flights = InitFlights
    /\ crewMembers = InitCrewMembers
    /\ reservations = [id \in {} |-> 0]
    /\ payments = [id \in {} |-> 0]
    /\ \E a \in DateInputs, b \in DateInputs :
          last = [NoCall EXCEPT !.op = "operator<=",
                                !.details = [a |-> a, b |-> b]]
    /\ priceIn = NoPriceInput
    /\ priceOut = NoPrice
    /\ usernameToIdMap = UsernameMap(users)

\* a <= b is evaluated for the operands drawn
LessOrEqual ==
    /\ last.ret = ""
    /\ last' = [last EXCEPT !.ret = IF DateTime_le(last.details.a, last.details.b)
                                    THEN "true" ELSE "false"]
    /\ UNCHANGED <<repos, priceIn, priceOut>>

NextDates == LessOrEqual

SpecDates == InitDates /\ [][NextDates]_vars

\* a is earlier than b: the first field in which they differ is smaller in a
Earlier(a, b) ==
    \E i \in 1..5 : a[i] < b[i] /\ \A j \in 1..(i - 1) : a[j] = b[j]

\* C27: a <= b is true exactly when a is earlier than or equal to b,
\* comparing year, month, day, hour and minute in that order; a <= a is true
C27_NonStrictOrder ==
    (last.op = "operator<=" /\ last.ret # "") =>
        (last.ret = "true"
           <=> (Earlier(last.details.a, last.details.b)
                  \/ last.details.a = last.details.b))


-----------------------------------------------------------------------------
(* updateAircraft as a transaction, checked under SpecFleet *)

\* the updateAircraft call just made acted on an aircraft that was stored
UpdateOfStored ==
    /\ last'.op = "updateAircraft"
    /\ last'.details.aircraftId \in DOMAIN aircrafts

\* C28: when updateAircraft is rejected (it returns false or raises an
\* error), the stored aircraft keeps its model, capacity, seats per row and
\* number of rows
C28_UpdateAllOrNothing ==
    [][(UpdateOfStored /\ last'.ret # "true") =>
          LET id == last'.details.aircraftId
          IN  /\ id \in DOMAIN aircrafts'
              /\ aircrafts'[id].model = aircrafts[id].model
              /\ aircrafts'[id].capacity = aircrafts[id].capacity
              /\ aircrafts'[id].numOfRowSeats = aircrafts[id].numOfRowSeats
              /\ aircrafts'[id].numOfRows = aircrafts[id].numOfRows]_vars

\* C29: updateAircraft called by an Admin on a stored aircraft succeeds for
\* every target with a non-empty model, capacity > 0, 1 <= seatsPerRow <= 26
\* and capacity divisible by seatsPerRow, whatever the aircraft's current
\* capacity and seats per row are
C29_ValidTargetAccepted ==
    [][(/\ UpdateOfStored
        /\ confirmAdmin(last'.caller)
        /\ last'.details.model # ""
        /\ last'.details.capacity > 0
        /\ 1 <= last'.details.numOfRowSeats
        /\ last'.details.numOfRowSeats <= 26
        /\ last'.details.capacity % last'.details.numOfRowSeats = 0)
          => last'.ret = "true"]_vars

====
